---- MODULE Spec2Model ----
(***************************************************************************)
(* sdf-heart: a WebGL host (script.js) driving a fragment program          *)
(* (shader.frag) that sphere-traces an animated implicit heart.            *)
(*                                                                         *)
(* Numbers.  GLSL floats are modelled as decimal fixed-point integers with *)
(* four fractional digits (the value x is the integer x * Q), every        *)
(* product and quotient rounded down to that grid.  The sentinel distance  *)
(* 1e10 does not fit the grid and is held as the grid's largest value FAR; *)
(* every other distance of the model is below it.  A NaN is carried as a   *)
(* separate flag where the code can meet one.  The distance query and the  *)
(* march of single rays, whose properties depend on the magnitudes         *)
(* computed, run in six-digit decimal floating point instead (section      *)
(* "Floating point").                                                      *)
(***************************************************************************)
EXTENDS Integers, Sequences, FiniteSets, TLC

VARIABLES
    \* ---- fragment program, one pixel (shader.frag: main, raymarch) ----
    pc,            \* "march" | "returned" | "written"
    i,             \* raymarch: loop counter
    t,             \* raymarch: accumulated distance
    hitResult,     \* main: the vec2 raymarch returned, <<distance, id>>
    branch,        \* main: "none" | "Hit" | "NoHit"
    gl_FragColor,  \* main: <<r, g, b, a>> once written
    samples,       \* history: number of calls of map made by raymarch
    sumAdvance,    \* history: sum of the sampled distances that did not hit
    lastSample,    \* history: the pair map returned for the latest sample
    branches,      \* history: number of branch bodies of main executed
    writes,        \* history: number of assignments to gl_FragColor
    color,         \* main: the local color before tone mapping and gamma
    rayDirection_y, \* main: rayDirection.y as the sky branch read it
    t_sky,         \* main: the blend factor of the sky branch
    lightOpposed,  \* history: the light was exactly opposite the eye
    normalPath,    \* history: the branch of calcNormal main's call took,
                   \* "none" before it
    \* ---- extended scene (script.js 323-379: map with five primitives) ----
    primDists,     \* the distances of sphere, box, torus, heart, ground at p
    sceneResult,   \* the vec2 map returned for them, <<>> before the call
    \* ---- heart surface (shader.frag: eqHeart, gradHeart) ----
    heartP,        \* the point p in definition space, a vec3 of rationals
    heartF,        \* eqHeart(p), <<>> before the call
    heartGrad,     \* gradHeart(p), <<>> before the call
    \* ---- heartbeat (shader.frag: getHeartAnimationScales) ----
    u_time,        \* the uniform u_time of the latest frame, in seconds
    animation_scales, \* the vec3 computed for that frame, <<>> before it
    \* ---- host (script.js: main and the canvas listeners) ----
    hostPc,        \* main: "loading" before window.onload, "vertexSource"
                   \* and "fragmentSource" while it awaits a fetch,
                   \* "running" | "failed" after it returned
    mainLocals,    \* main: gl, the two sources, the two shaders, program
    glObjects,     \* the shader and program objects created so far, each
                   \* with its compile or link status and whether deleted
    listeners,     \* the event types with a listener on the canvas
    glcanvas,      \* the canvas: width, height, clientWidth, clientHeight
    viewport,      \* the GL viewport <<width, height>>, <<>> without context
    camera,        \* the object camera
    mouse,         \* the object mouse
    renderPc,      \* render: "idle" | "camPos" | "upload" | "draw" | "request"
    pending,       \* the calls of render requested and not yet started
    frame,         \* the running call of render: its time, the camera it
                   \* started with, camPos, the uniforms uploaded, the draw
    buttonDown,    \* history: a mousedown with no later mouseup
    \* ---- one call of PBRShading (shader.frag 192-249) ----
    pbrIn,         \* the arguments, as clamped dot products and material
    pbrOut,        \* the vec3 returned and whether it is NaN, <<>> before
    \* ---- one distance query (shader.frag 56-104, script.js 299-302) ----
    distIn,        \* the world point, the time and the program asked
    distOut,       \* the value of F and the distance returned, <<>> before
    \* ---- one ray in floating point (shader.frag 89-161, 292-305) ----
    marchIn,       \* the uniforms and gl_FragCoord of the pixel
    marchPc,       \* "main" | "march" | "returned" | "normal"
    marchRd,       \* main: rayDirection, <<>> before getRayDirection
    marchT,        \* raymarch: t
    marchI,        \* raymarch: i
    marchPrev,     \* history: <<t, dist_to_surface>> of the latest sample
                   \* that was not a hit, <<>> before it
    marchResult,   \* the vec2 raymarch returned, <<>> before
    marchNormal,   \* the vec3 calcNormal returned, <<>> before
    marchMapCalls  \* history: the calls of map made by calcNormal

pixelVars == <<pc, i, t, hitResult, branch, gl_FragColor, samples,
               sumAdvance, lastSample, branches, writes, color,
               rayDirection_y, t_sky, lightOpposed, normalPath>>

sceneVars == <<primDists, sceneResult>>

heartVars == <<heartP, heartF, heartGrad>>

animVars == <<u_time, animation_scales>>

hostVars == <<hostPc, camera, mouse, renderPc, pending, frame, buttonDown,
              mainLocals, glObjects, listeners, glcanvas, viewport>>

pbrVars == <<pbrIn, pbrOut>>

distVars == <<distIn, distOut>>

marchVars == <<marchIn, marchPc, marchRd, marchT, marchI, marchPrev,
               marchResult, marchNormal, marchMapCalls>>

vars == <<pixelVars, sceneVars, heartVars, animVars, hostVars, pbrVars,
          distVars, marchVars>>

\* what the actions of one part of the program leave alone
\* what main and the canvas own: no listener and no step of render after
\* its first changes them
pageVars == <<mainLocals, glObjects, listeners, glcanvas, viewport>>

notPixel == <<sceneVars, heartVars, animVars, hostVars, pbrVars,
              distVars, marchVars>>

notScene == <<pixelVars, heartVars, animVars, hostVars, pbrVars,
              distVars, marchVars>>

notHeart == <<pixelVars, sceneVars, animVars, hostVars, pbrVars,
              distVars, marchVars>>

notAnim == <<pixelVars, sceneVars, heartVars, hostVars, pbrVars,
             distVars, marchVars>>

notHost == <<pixelVars, sceneVars, heartVars, animVars, pbrVars,
             distVars, marchVars>>

notPbr == <<pixelVars, sceneVars, heartVars, animVars, hostVars,
            distVars, marchVars>>

notDist == <<pixelVars, sceneVars, heartVars, animVars, hostVars, pbrVars,
             marchVars>>

notMarch == <<pixelVars, sceneVars, heartVars, animVars, hostVars, pbrVars,
              distVars>>

(***************************************************************************)
(* Fixed-point helpers                                                     *)
(***************************************************************************)
Q == 10^4

FAR == 2 * 10^9

Abs(x) == IF x < 0 THEN -x ELSE x

Min(a, b) == IF b < a THEN b ELSE a

Max(a, b) == IF a < b THEN b ELSE a

\* floor(a * b / Q), the partial products kept within 32 bits
MulQ(a, b) ==
    LET ah == a \div Q
        al == a % Q
        bh == b \div Q
        bl == b % Q
    IN  ah * bh * Q + ah * bl + al * bh + (al * bl) \div Q

\* floor(a * Q / b) for a >= 0, b > 0, by long division, one digit a step
RECURSIVE LongDiv(_, _, _, _)
LongDiv(q, r, b, n) ==
    IF n = 0 THEN q
    ELSE LongDiv(q * 10 + (r * 10) \div b, (r * 10) % b, b, n - 1)

DivQ(a, b) ==
    IF a >= 0 THEN LongDiv(a \div b, a % b, b, 4)
    ELSE -LongDiv((-a) \div b, (-a) % b, b, 4)

(***************************************************************************)
(* shader.frag: raymarch                                                   *)
(***************************************************************************)
MAX_STEPS == 100

MAX_DIST == 100 * Q

HIT_THRESHOLD == Q \div 1000

SENTINEL == -1

\* a variant of map: the heart's distance is taken, the id left as it was
map_defaultId(heartDist, heartNaN) == <<IF ~heartNaN /\ heartDist < FAR THEN heartDist ELSE FAR, 0>>

\* a variant of Escaped: the march goes on whatever the distance
Escaped_never(t1) == FALSE

\* map (shader.frag 89-104) as a function of the value sdHeart returned:
\* the heart replaces the initial pair (1e10, 0.0) when its distance is
\* smaller; a comparison with a NaN is false.
map(heartDist, heartNaN) ==
    LET sceneDist == FAR
        materialID == 0
    IN  IF ~heartNaN /\ heartDist < sceneDist
        THEN <<heartDist, 1>>
        ELSE <<sceneDist, materialID>>

\* a variant of IsHit: the comparison made inclusive
IsHit_inclusive(dist_to_surface) == dist_to_surface <= HIT_THRESHOLD

\* the test of line 145
IsHit(dist_to_surface) == dist_to_surface < HIT_THRESHOLD

\* line 149, the sum held at FAR once the sentinel distance was added
Advance(t0, dist_to_surface) == Min(t0 + dist_to_surface, FAR)

\* the test of line 150
Escaped(t1) == t1 > MAX_DIST

\* a variant of LoopContinues: the bound off by one
LoopContinues_offByOne(i1) == i1 <= MAX_STEPS

\* the loop condition of line 140
LoopContinues(i1) == i1 < MAX_STEPS

\* a variant of MissResult: the default material id in place of -1.0
MissResult_defaultId == <<MAX_DIST, 0>>

\* line 152
MissResult == <<MAX_DIST, SENTINEL>>

(***************************************************************************)
(* shader.frag: built-in functions and the PBR helpers                     *)
(***************************************************************************)
PI == 31415

clamp(x, lo, hi) == Min(Max(x, lo), hi)

\* mix(x, y, a) = x * (1 - a) + y * a
mix(x, y, a) == MulQ(x, Q - a) + MulQ(y, a)

mix3(x, y, a) == [k \in 1..3 |-> mix(x[k], y[k], a)]

\* smoothstep(edge0, edge1, x): t = clamp((x - edge0) / (edge1 - edge0), 0, 1),
\* t * t * (3 - 2 * t)
smoothstep(edge0, edge1, x) ==
    LET tt == clamp(DivQ(x - edge0, edge1 - edge0), 0, Q)
    IN  MulQ(MulQ(tt, tt), 3 * Q - 2 * tt)

\* pow(x, 1.0 / 2.2), the built-in tabulated at x = k/20 below 1 and at
\* x = 2^k above, linear between neighbouring entries
GammaLow == <<0, 2562, 3511, 4222, 4812, 5325, 5785, 6205, 6594, 6956, 7297,
              7620, 7928, 8222, 8503, 8774, 9035, 9288, 9532, 9770, 10000>>

GammaHigh == <<10000, 13704, 18779, 25733, 35264, 48324, 66220, 90745,
               124353, 170407, 233517, 320000>>

RECURSIVE Log2Floor(_)
Log2Floor(x) == IF x < 2 * Q THEN 0 ELSE 1 + Log2Floor(x \div 2)

powGamma(x) ==
    IF x <= 0 THEN 0
    ELSE IF x < Q
    THEN LET step == Q \div 20
             k == x \div step
         IN  GammaLow[k + 1]
               + ((GammaLow[k + 2] - GammaLow[k + 1]) * (x % step)) \div step
    ELSE LET k == Min(Log2Floor(x), 10)
             lo == Q * 2^k
         IN  GammaHigh[k + 1]
               + MulQ(GammaHigh[k + 2] - GammaHigh[k + 1],
                      DivQ(Min(x, 2 * lo) - lo, lo))

\* pow(x, 5.0)
pow5(x) == MulQ(MulQ(MulQ(x, x), MulQ(x, x)), x)

\* lines 165-171
D_GGX(NdotH, roughness) ==
    LET a == MulQ(roughness, roughness)
        a2 == MulQ(a, a)
        NdotH2 == MulQ(NdotH, NdotH)
        denom == MulQ(NdotH2, a2 - Q) + Q
    IN  DivQ(a2, MulQ(PI, MulQ(denom, denom)))

\* lines 174-178
G_SchlickGGX(NdotVal, roughness) ==
    LET r == roughness + Q
        k == MulQ(r, r) \div 8
    IN  DivQ(NdotVal, MulQ(NdotVal, Q - k) + k)

\* lines 180-184
G_Smith(NdotV, NdotL, roughness) ==
    MulQ(G_SchlickGGX(NdotV, roughness), G_SchlickGGX(NdotL, roughness))

\* lines 187-189, one component
F_Schlick(cosTheta, F0) ==
    F0 + MulQ(Q - F0, pow5(clamp(Q - cosTheta, 0, Q)))

\* line 243, (0.05, 0.15, 0.4)
ambient_sky_tint == <<Q \div 20, (3 * Q) \div 20, (2 * Q) \div 5>>

\* lines 212-248 of PBRShading: everything after the four clamped dot
\* products of lines 207-210, which are its geometric inputs here together
\* with the squared distance to the light.
PBRShading(NdotL, NdotV, NdotH, VdotH, dist_light_sq, albedo_col, metallic_val, roughness_val, ao_val, light_intensity) ==
    LET attenuation == DivQ(Q, dist_light_sq + Q)
        radiance == MulQ(light_intensity, attenuation)
        D == D_GGX(NdotH, roughness_val)
        G == G_Smith(NdotV, NdotL, roughness_val)
        F0 == [k \in 1..3 |-> mix(Q \div 25, albedo_col[k], metallic_val)]
        F == [k \in 1..3 |-> F_Schlick(VdotH, F0[k])]
        spec_denominator == 4 * MulQ(NdotV, NdotL) + Q \div 1000
        specular_contrib ==
            [k \in 1..3 |-> DivQ(MulQ(MulQ(D, G), F[k]), spec_denominator)]
        kD == [k \in 1..3 |-> MulQ(Q - F[k], Q - metallic_val)]
        diffuse_contrib ==
            [k \in 1..3 |-> DivQ(MulQ(kD[k], albedo_col[k]), PI)]
        direct_lighting ==
            [k \in 1..3 |->
                MulQ(MulQ(diffuse_contrib[k] + specular_contrib[k], radiance),
                     NdotL)]
        ambient_intensity_factor == Q \div 2
        ambient_contrib ==
            [k \in 1..3 |->
                MulQ(MulQ(MulQ(ambient_sky_tint[k], ambient_intensity_factor),
                          albedo_col[k]), ao_val)]
    IN  [k \in 1..3 |-> ambient_contrib[k] + direct_lighting[k]]

\* lines 252-290 of getSurfaceColor: the material of the id and the light's
\* radiance vec3(200.0)
getSurfaceColor(NdotL, NdotV, NdotH, VdotH, dist_light_sq, materialID) ==
    LET heart == materialID = 1
        albedo == IF heart THEN <<Q, 0, 0>>
                  ELSE <<(7 * Q) \div 10, (7 * Q) \div 10, (7 * Q) \div 10>>
        metallic == IF heart THEN Q \div 10 ELSE 0
        roughness == IF heart THEN (4 * Q) \div 10 ELSE (7 * Q) \div 10
        ao == Q
    IN  PBRShading(NdotL, NdotV, NdotH, VdotH, dist_light_sq,
                   albedo, metallic, roughness, ao, 200 * Q)

\* line 320
Reinhard(c) == [k \in 1..3 |-> DivQ(c[k], c[k] + Q)]

\* lines 321 and 336
GammaEncode(c) == [k \in 1..3 |-> powGamma(c[k])]

\* lines 309-310
horizonSkyColor == <<(15 * Q) \div 100, (45 * Q) \div 100, (85 * Q) \div 100>>

zenithSkyColor == <<(5 * Q) \div 100, (15 * Q) \div 100, (40 * Q) \div 100>>

\* The distances sdHeart is taken to return along a ray: inside the heart,
\* just below the threshold, the threshold itself, a long step, and a value
\* that is not below the initial scene distance.
HeartDists == {-5 * Q, HIT_THRESHOLD - 5, HIT_THRESHOLD, 25 * Q, FAR}

\* One iteration of the loop of raymarch (lines 141-150), together with the
\* loop exit and the return that follow it when the loop does not go on.
Sample(heartDist, heartNaN) ==
    /\ pc = "march"
    /\ LoopContinues(i)
    /\ LET map_result == map(heartDist, heartNaN)
           dist_to_surface == map_result[1]
       IN  /\ samples' = samples + 1
           /\ lastSample' = map_result
           /\ IF IsHit(dist_to_surface)
              THEN /\ hitResult' = <<t, map_result[2]>>
                   /\ pc' = "returned"
                   /\ UNCHANGED <<i, t, sumAdvance>>
              ELSE /\ t' = Advance(t, dist_to_surface)
                   /\ sumAdvance' = Min(sumAdvance + dist_to_surface, FAR)
                   /\ IF Escaped(t') \/ ~LoopContinues(i + 1)
                      THEN /\ hitResult' = MissResult
                           /\ pc' = "returned"
                           /\ i' = IF Escaped(t') THEN i ELSE i + 1
                      ELSE /\ i' = i + 1
                           /\ UNCHANGED <<pc, hitResult>>
    /\ UNCHANGED <<branch, gl_FragColor, branches, writes>>
    /\ UNCHANGED <<color, rayDirection_y, t_sky, lightOpposed, normalPath>>
    /\ UNCHANGED notPixel

Raymarch ==
    \E heartDist \in HeartDists, heartNaN \in BOOLEAN :
        Sample(heartDist, heartNaN)

\* a variant of TakesHitBranch: the threshold below the sentinel
TakesHitBranch_belowSentinel(materialID_hit) == 2 * materialID_hit > -3

\* line 312: materialID_hit > -0.5
TakesHitBranch(materialID_hit) == 2 * materialID_hit > -1

\* line 315: V = normalize(rayOrigin - hitPoint) with
\* hitPoint = rayOrigin + rayDirection * distToSurface (line 313).  The
\* difference is the zero vector when distToSurface is 0.0, and GLSL leaves
\* the result of normalizing a zero vector undefined.
ViewVectorDefined(distToSurface) == distToSurface # 0

\* The clamped dot products a surface point can present (lines 207-210) and
\* the squared distances to the light.
NdotLs == {0, Q \div 2, Q}

NdotVs == {Q \div 1000, Q}

NdotHs == {0, Q}

VdotHs == {0, Q}

LightDistSqs == {20 * Q}

\* rayDirection.y of a unit ray direction
RayYs == {-Q, 0, (4 * Q) \div 10, (8 * Q) \div 10, Q}

\* line 204: H_half = normalize(V_eye + L_light).  The sum is the zero
\* vector when the light is exactly opposite the eye, and the result is
\* undefined as for the view vector.
HalfVectorDefined(opposed) == ~opposed

\* lines 320-321: Reinhard, then gamma
HitPostProcess(c) == GammaEncode(Reinhard(c))

\* a variant of SkyPostProcess: Reinhard, then gamma, as for a hit
SkyPostProcess_tonemapped(c) == GammaEncode(Reinhard(c))

\* line 336: gamma alone
SkyPostProcess(c) == GammaEncode(c)

\* a variant of SkyBlend that saturates at rayDirection.y = 1
SkyBlend_toZenith(dirY) == smoothstep(0, Q, dirY)

\* line 332
SkyBlend(dirY) == smoothstep(0, (8 * Q) \div 10, dirY)

\* line 108: the branch calcNormal takes for a material id
calcNormalPath(materialID) ==
    IF materialID = 1 THEN "gradient" ELSE "centralDifference"

\* lines 312-326, 339: the branch of main taken for a hit.  opposed says
\* that the light is exactly opposite the eye, which puts it behind the
\* surface (NdotL = 0).  undefNaN is the build's answer where the view
\* vector or the half vector is undefined: a NaN that reaches every term
\* of the shading, or some vector.
MainHit(NdotL, NdotV, NdotH, VdotH, dist_light_sq, opposed, undefNaN) ==
    /\ pc = "returned"
    /\ TakesHitBranch(hitResult[2])
    /\ opposed => NdotL = 0
    /\ (ViewVectorDefined(hitResult[1]) /\ HalfVectorDefined(opposed))
           => ~undefNaN
    /\ LET distToSurface == hitResult[1]
           materialID_hit == hitResult[2]
           shaded == getSurfaceColor(NdotL, NdotV, NdotH, VdotH,
                                     dist_light_sq, materialID_hit)
           mapped == HitPostProcess(shaded)
           fogAmount == smoothstep(10 * Q, 30 * Q, distToSurface)
           fogged == mix3(mapped, horizonSkyColor, fogAmount)
       IN  /\ color' = IF undefNaN THEN <<0, 0, 0>> ELSE shaded
           /\ gl_FragColor' =
                 [rgb |-> IF undefNaN THEN <<0, 0, 0>> ELSE fogged,
                  nan |-> undefNaN,
                  a |-> Q]
    /\ lightOpposed' = opposed
    /\ normalPath' = calcNormalPath(hitResult[2])
    /\ UNCHANGED <<rayDirection_y, t_sky>>
    /\ branch' = "Hit"
    /\ branches' = branches + 1
    /\ writes' = writes + 1
    /\ pc' = "written"
    /\ UNCHANGED <<i, t, hitResult, samples, sumAdvance, lastSample>>
    /\ UNCHANGED notPixel

\* lines 327-337, 339: the branch of main taken for a miss
MainNoHit(dirY) ==
    /\ pc = "returned"
    /\ ~TakesHitBranch(hitResult[2])
    /\ rayDirection_y' = dirY
    /\ t_sky' = SkyBlend(dirY)
    /\ color' = mix3(horizonSkyColor, zenithSkyColor, t_sky')
    /\ gl_FragColor' = [rgb |-> SkyPostProcess(color'), nan |-> FALSE, a |-> Q]
    /\ UNCHANGED <<lightOpposed, normalPath>>
    /\ branch' = "NoHit"
    /\ branches' = branches + 1
    /\ writes' = writes + 1
    /\ pc' = "written"
    /\ UNCHANGED <<i, t, hitResult, samples, sumAdvance, lastSample>>
    /\ UNCHANGED notPixel

Shade ==
    \/ \E NdotL \in NdotLs, NdotV \in NdotVs, NdotH \in NdotHs,
          VdotH \in VdotHs, dist_light_sq \in LightDistSqs,
          opposed \in BOOLEAN, undefNaN \in BOOLEAN :
            MainHit(NdotL, NdotV, NdotH, VdotH, dist_light_sq, opposed,
                    undefNaN)
    \/ \E dirY \in RayYs : MainNoHit(dirY)

(***************************************************************************)
(* script.js 323-379: map of the extended scene                            *)
(***************************************************************************)
MaxSceneLevel == 2

\* the distances a primitive is taken to return: k half units around zero
SceneDists == {((k - 1) * Q) \div 2 : k \in 0..MaxSceneLevel}

\* the material ids in declaration order: sphere, box, torus, heart, ground
SceneIds == <<1, 2, 3, 4, 0>>

\* a variant of Closer: a later primitive also wins a tie
Closer_orEqual(dist, sceneDist) == dist <= sceneDist

\* the comparison of lines 331, 349, 358, 366, 373
Closer(dist, sceneDist) == dist < sceneDist

\* lines 324-378: the five ifs in order, from the pair (1e10, 0.0)
RECURSIVE SceneFold(_, _, _)
SceneFold(dists, k, acc) ==
    IF k > Len(dists) THEN acc
    ELSE SceneFold(dists, k + 1,
                   IF Closer(dists[k], acc[1])
                   THEN <<dists[k], SceneIds[k]>>
                   ELSE acc)

sceneMap(dists) == SceneFold(dists, 1, <<FAR, 0>>)

SceneInit ==
    /\ primDists \in [1..5 -> SceneDists]
    /\ sceneResult = <<>>

SceneIdle ==
    /\ primDists = [k \in 1..5 |-> 0]
    /\ sceneResult = <<>>

\* one call of map
SceneMap ==
    /\ sceneResult = <<>>
    /\ sceneResult' = sceneMap(primDists)
    /\ UNCHANGED primDists
    /\ UNCHANGED notScene

(***************************************************************************)
(* Exact rationals <<numerator, denominator>> in lowest terms, for the     *)
(* polynomial of the heart and the heartbeat scales                        *)
(***************************************************************************)
RECURSIVE GCD(_, _)
GCD(a, b) == IF b = 0 THEN a ELSE GCD(b, a % b)

RNorm(n, d) ==
    LET g == GCD(Abs(n), d)
    IN  <<n \div g, d \div g>>

\* the decimal literal n * 10^-k
Dec(n, k) == RNorm(n, 10^k)

RInt(n) == <<n, 1>>

RNeg(a) == <<-a[1], a[2]>>

RAdd(a, b) ==
    LET l == (a[2] \div GCD(a[2], b[2])) * b[2]
    IN  RNorm(a[1] * (l \div a[2]) + b[1] * (l \div b[2]), l)

RSub(a, b) == RAdd(a, RNeg(b))

RMul(a, b) ==
    LET g1 == GCD(Abs(a[1]), b[2])
        g2 == GCD(Abs(b[1]), a[2])
    IN  <<(a[1] \div g1) * (b[1] \div g2), (a[2] \div g2) * (b[2] \div g1)>>

\* a / b for b # 0
RDiv(a, b) ==
    IF b[1] > 0 THEN RMul(a, <<b[2], b[1]>>)
    ELSE RMul(a, <<-b[2], -b[1]>>)

RLeq(a, b) == RSub(a, b)[1] <= 0

(***************************************************************************)
(* shader.frag 17-53: eqHeart, gradHeart                                   *)
(***************************************************************************)
\* lines 19-31
eqHeart(p) ==
    LET x2 == RMul(p[1], p[1])
        y2 == RMul(p[2], p[2])
        z2 == RMul(p[3], p[3])
        z3 == RMul(z2, p[3])
        term1_base == RSub(RAdd(RAdd(x2, RMul(Dec(225, 2), y2)), z2), RInt(1))
        term1 == RMul(RMul(term1_base, term1_base), term1_base)
        term2 == RMul(x2, z3)
        term3 == RMul(RMul(Dec(1125, 4), y2), z3)
    IN  RSub(RSub(term1, term2), term3)

\* a variant of gradHeart with the coefficients of b = 9/200, the value the
\* extended scene passes (script.js 365)
gradHeart_b200(p) ==
    LET x == p[1]
        y == p[2]
        z == p[3]
        x_sq == RMul(x, x)
        y_sq == RMul(y, y)
        z_sq == RMul(z, z)
        z_cub == RMul(z_sq, z)
        common_term_base ==
            RSub(RAdd(RAdd(x_sq, RMul(Dec(225, 2), y_sq)), z_sq), RInt(1))
        common_term_sq == RMul(common_term_base, common_term_base)
        df_dx == RSub(RMul(RMul(RInt(6), x), common_term_sq),
                      RMul(RMul(RInt(2), x), z_cub))
        df_dy == RSub(RMul(RMul(Dec(135, 1), y), common_term_sq),
                      RMul(RMul(Dec(9, 2), y), z_cub))
        df_dz == RSub(RSub(RMul(RMul(RInt(6), z), common_term_sq),
                           RMul(RMul(RInt(3), x_sq), z_sq)),
                      RMul(RMul(Dec(135, 3), y_sq), z_sq))
    IN  <<df_dx, df_dy, df_dz>>

\* lines 34-53
gradHeart(p) ==
    LET x == p[1]
        y == p[2]
        z == p[3]
        x_sq == RMul(x, x)
        y_sq == RMul(y, y)
        z_sq == RMul(z, z)
        z_cub == RMul(z_sq, z)
        common_term_base ==
            RSub(RAdd(RAdd(x_sq, RMul(Dec(225, 2), y_sq)), z_sq), RInt(1))
        common_term_sq == RMul(common_term_base, common_term_base)
        df_dx == RSub(RMul(RMul(RInt(6), x), common_term_sq),
                      RMul(RMul(RInt(2), x), z_cub))
        df_dy == RSub(RMul(RMul(Dec(135, 1), y), common_term_sq),
                      RMul(RMul(Dec(225, 3), y), z_cub))
        df_dz == RSub(RSub(RMul(RMul(RInt(6), z), common_term_sq),
                           RMul(RMul(RInt(3), x_sq), z_sq)),
                      RMul(RMul(Dec(3375, 4), y_sq), z_sq))
    IN  <<df_dx, df_dy, df_dz>>

MaxCoord == 2

\* the points the functions are evaluated at: the integer lattice
HeartCoords == {RInt(n) : n \in (-MaxCoord)..MaxCoord}

HeartPoints == HeartCoords \X HeartCoords \X HeartCoords

HeartInit ==
    /\ heartP \in HeartPoints
    /\ heartF = <<>>
    /\ heartGrad = <<>>

HeartIdle ==
    /\ heartP = <<RInt(0), RInt(0), RInt(0)>>
    /\ heartF = <<>>
    /\ heartGrad = <<>>

\* sdHeart lines 57-58: both functions evaluated at the same point
HeartEval ==
    /\ heartF = <<>>
    /\ heartF' = eqHeart(heartP)
    /\ heartGrad' = gradHeart(heartP)
    /\ UNCHANGED heartP
    /\ UNCHANGED notHeart

(***************************************************************************)
(* shader.frag 63-77: getHeartAnimationScales                              *)
(***************************************************************************)
\* cos at k * pi/12 for k = 0..12; the irrational values to two decimals
CosTable ==
    <<RInt(1), Dec(97, 2), Dec(87, 2), Dec(71, 2), Dec(5, 1), Dec(26, 2),
      RInt(0), Dec(-26, 2), Dec(-5, 1), Dec(-71, 2), Dec(-87, 2),
      Dec(-97, 2), RInt(-1)>>

\* cos(phase * PI) for a phase given as a rational number of half turns,
\* a multiple of 1/12
cosPi(phase) ==
    LET k == ((phase[1] * 12) \div phase[2]) % 24
    IN  CosTable[(IF k > 12 THEN 24 - k ELSE k) + 1]

\* a variant of beat_bpm: half the rate
beat_bpm_half == 30 \div 2

\* line 65
beat_bpm == 30

\* a variant of beat_amplitude: the heart contracts to nothing
beat_amplitude_full == RInt(1)

\* line 64
beat_amplitude == Dec(2, 2)

\* line 66, in units of PI: 2.0 * (beat_bpm / 60.0)
beat_freq_rad_per_sec == RMul(RInt(2), RDiv(RInt(beat_bpm), RInt(60)))

\* a variant of getHeartAnimationScales: the height compensates one axis
getHeartAnimationScales_oneAxis(time) ==
    LET beat_phase == RMul(time, beat_freq_rad_per_sec)
        beat_cycle == RMul(RAdd(cosPi(beat_phase), RInt(1)), Dec(5, 1))
        s_beat == RSub(RInt(1), RMul(beat_amplitude, RSub(RInt(1), beat_cycle)))
        scale_heart_eqX == s_beat
        scale_heart_eqY == s_beat
        scale_heart_eqZ == RDiv(RInt(1), RAdd(scale_heart_eqX, Dec(1, 7)))
    IN  <<scale_heart_eqX, scale_heart_eqY, scale_heart_eqZ>>

\* lines 68-69: beat_cycle, the phase counted in half turns
beatCycleOf(time) ==
    LET beat_phase == RMul(time, beat_freq_rad_per_sec)
    IN  RMul(RAdd(cosPi(beat_phase), RInt(1)), Dec(5, 1))

\* lines 63-77, u_time passed as the argument
getHeartAnimationScales(time) ==
    LET beat_cycle == beatCycleOf(time)
        s_beat == RSub(RInt(1), RMul(beat_amplitude, RSub(RInt(1), beat_cycle)))
        scale_heart_eqX == s_beat
        scale_heart_eqY == s_beat
        scale_heart_eqZ ==
            RDiv(RInt(1),
                 RAdd(RMul(scale_heart_eqX, scale_heart_eqY), Dec(1, 7)))
    IN  <<scale_heart_eqX, scale_heart_eqY, scale_heart_eqZ>>

MaxTicks == 120

\* the frame times: every sixth of a second up to MaxTicks sixths
FrameTimes == {RNorm(k, 6) : k \in 0..MaxTicks}

AnimInit ==
    /\ u_time = RInt(0)
    /\ animation_scales = <<>>

AnimIdle ==
    /\ AnimInit

\* one frame: the host uploads a time not before the last one and the
\* fragment program computes the scales from it
AnimFrame ==
    \E time \in FrameTimes :
        /\ RLeq(u_time, time)
        /\ u_time' = time
        /\ animation_scales' = getHeartAnimationScales(time)
        /\ UNCHANGED notAnim

(***************************************************************************)
(* script.js 10-22, 34-111: camera, mouse, main and the listeners          *)
(***************************************************************************)
\* Math.PI / 2
HALF_PI == PI \div 2

\* the factor 0.01 of lines 90, 91, 106: radians or units per pixel
PER_PIXEL == Q \div 100

\* a variant of clampElevation without the lower limit
clampElevation_upperOnly(elevation) ==
    Min(HALF_PI - Q \div 100, elevation)

\* lines 95-98
clampElevation(elevation) ==
    Max(-HALF_PI + Q \div 100, Min(HALF_PI - Q \div 100, elevation))

\* a variant of clampDistance without the lower limit
clampDistance_upperOnly(distance) == Min(50 * Q, distance)

\* line 107
clampDistance(distance) == Max(Q, Min(50 * Q, distance))

\* the pointer positions and wheel movements the events carry
ClientXs == {0, 150}

ClientYs == {0, 100, 250}

WheelDeltas == {-500, 500}

\* the azimuth is followed up to this many radians either way
MaxAzimuthRad == 4

\* the milliseconds requestAnimationFrame passes to render
RenderTimesMs == {0, 1000}

\* the uniforms of lines 152-156
UniformNames ==
    {"u_resolution", "u_time", "u_cameraPos", "u_cameraLookAt",
     "u_cameraZoom"}

\* lines 143-150: camPos, the sine and cosine left unevaluated: each
\* component as the values of the camera object it is computed from
camPosOf(cam) ==
    << [lookAt |-> cam.lookAt[1], distance |-> cam.distance,
        cosOf |-> cam.elevation, sinOf |-> cam.azimuth],
       [lookAt |-> cam.lookAt[2], distance |-> cam.distance,
        sinOf |-> cam.elevation],
       [lookAt |-> cam.lookAt[3], distance |-> cam.distance,
        cosOf |-> cam.elevation, cosOfAzimuth |-> cam.azimuth] >>

\* a variant of HandlerMayRun: a listener runs in the middle of render
HandlerMayRun_anytime == TRUE

\* a listener is called by the event loop, which runs one callback to its
\* end before the next: never while render is executing
HandlerMayRun == renderPc = "idle"

\* a variant of RequestedFrames: render returns without a request
RequestedFrames_none(n) == n

\* lines 110 and 159: requestAnimationFrame(render) adds one pending call
RequestedFrames(n) == n + 1

\* a variant of ShouldOrbit: the move is applied whatever the button
ShouldOrbit_always(dragging) == TRUE

\* line 89: if (mouse.dragging)
ShouldOrbit(dragging) == dragging

HostInit ==
    /\ hostPc = "loading"
    /\ camera = [azimuth |-> 0, elevation |-> PI \div 12, distance |-> 6 * Q,
                 lookAt |-> <<0, (2 * Q) \div 10, 0>>, zoom |-> 2 * Q]
    /\ mouse = [lastX |-> 0, lastY |-> 0, dragging |-> FALSE]
    /\ renderPc = "idle"
    /\ pending = 0
    /\ frame = <<>>
    /\ buttonDown = FALSE
    /\ mainLocals = [gl |-> "unset", vertexShaderSource |-> "unset",
                     fragmentShaderSource |-> "unset",
                     vertexShader |-> "unset", fragmentShader |-> "unset",
                     program |-> "unset"]
    /\ glObjects = <<>>
    /\ listeners = {}
    /\ glcanvas = [width |-> 300, height |-> 150,
                   clientWidth |-> 300, clientHeight |-> 150]
    /\ viewport = <<>>

HostIdle ==
    /\ HostInit

\* the event types main listens to, lines 80-108
EventTypes == {"mousedown", "mouseup", "mousemove", "wheel"}

\* lines 24-32: loadShaderSource gives the text of an ok response and
\* throws otherwise
loadShaderSource(ok) == IF ok THEN "text" ELSE "thrown"

\* a variant of createShader: the shader is returned whatever the status
createShader_unchecked(objects, type, success) ==
    [objects |-> objects @@ (type :> [success |-> success,
                                      deleted |-> FALSE]),
     returned |-> type]

\* lines 162-182: createShader(gl, type, source); success is what
\* COMPILE_STATUS reports, objects are the objects of the context, the
\* new shader is named by its type
createShader(objects, type, success) ==
    IF success
    THEN [objects |-> objects @@ (type :> [success |-> TRUE,
                                           deleted |-> FALSE]),
          returned |-> type]
    ELSE [objects |-> objects @@ (type :> [success |-> FALSE,
                                           deleted |-> TRUE]),
          returned |-> "null"]

\* lines 184-196: createProgram(gl, vertexShader, fragmentShader);
\* success is what LINK_STATUS reports
createProgram(objects, vertexShader, fragmentShader, success) ==
    LET attached == <<vertexShader, fragmentShader>>
    IN  IF success
        THEN [objects |-> objects @@ ("PROGRAM" :>
                            [success |-> TRUE, deleted |-> FALSE,
                             attached |-> attached]),
              returned |-> "PROGRAM"]
        ELSE [objects |-> objects @@ ("PROGRAM" :>
                            [success |-> FALSE, deleted |-> TRUE,
                             attached |-> attached]),
              returned |-> "null"]

\* a variant of ShadersReady: only the vertex shader is looked at
ShadersReady_vertexOnly(vertexShader, fragmentShader) == vertexShader # "null"

\* line 60: if (!vertexShader || !fragmentShader) return;
ShadersReady(vertexShader, fragmentShader) ==
    vertexShader # "null" /\ fragmentShader # "null"

\* lines 34-46: main asks for the context, returns without one, and
\* starts the fetch of shader.vert
MainStart ==
    \E context \in BOOLEAN :
        /\ hostPc = "loading"
        /\ mainLocals' = [mainLocals EXCEPT
                            !.gl = IF context THEN "context" ELSE "null"]
        /\ hostPc' = IF context THEN "vertexSource" ELSE "failed"
        /\ viewport' = IF context
                       THEN <<glcanvas.width, glcanvas.height>>
                       ELSE viewport
        /\ UNCHANGED <<camera, mouse, renderPc, pending, frame, buttonDown,
                       glObjects, listeners, glcanvas>>
        /\ UNCHANGED notHost

\* lines 46-47 and 49-53: the fetch of shader.vert ends; main goes on to
\* the fetch of shader.frag, or catches what loadShaderSource threw and
\* returns
MainVertexLoaded ==
    \E ok \in BOOLEAN :
        /\ hostPc = "vertexSource"
        /\ mainLocals' = [mainLocals EXCEPT
                            !.vertexShaderSource = loadShaderSource(ok)]
        /\ hostPc' = IF ok THEN "fragmentSource" ELSE "failed"
        /\ UNCHANGED <<camera, mouse, renderPc, pending, frame, buttonDown,
                       glObjects, listeners, glcanvas, viewport>>
        /\ UNCHANGED notHost

\* lines 47-110: the fetch of shader.frag ends; main catches and returns,
\* or compiles both shaders, links the program, looks up the locations,
\* fills the buffer, registers the listeners and requests the first frame
MainFragmentLoaded ==
    \E ok \in BOOLEAN, vsCompiles \in BOOLEAN, fsCompiles \in BOOLEAN,
       links \in BOOLEAN :
        LET vs == createShader(glObjects, "VERTEX_SHADER", vsCompiles)
            fs == createShader(vs.objects, "FRAGMENT_SHADER", fsCompiles)
            pr == createProgram(fs.objects, vs.returned, fs.returned, links)
        IN  /\ hostPc = "fragmentSource"
            /\ IF ~ok
               THEN /\ mainLocals' = [mainLocals EXCEPT
                          !.fragmentShaderSource = loadShaderSource(ok)]
                    /\ hostPc' = "failed"
                    /\ UNCHANGED <<glObjects, listeners, pending>>
               ELSE IF ~ShadersReady(vs.returned, fs.returned)
               THEN /\ mainLocals' = [mainLocals EXCEPT
                          !.fragmentShaderSource = loadShaderSource(ok),
                          !.vertexShader = vs.returned,
                          !.fragmentShader = fs.returned]
                    /\ glObjects' = fs.objects
                    /\ hostPc' = "failed"
                    /\ UNCHANGED <<listeners, pending>>
               ELSE IF pr.returned = "null"
               THEN /\ mainLocals' = [mainLocals EXCEPT
                          !.fragmentShaderSource = loadShaderSource(ok),
                          !.vertexShader = vs.returned,
                          !.fragmentShader = fs.returned,
                          !.program = pr.returned]
                    /\ glObjects' = pr.objects
                    /\ hostPc' = "failed"
                    /\ UNCHANGED <<listeners, pending>>
               ELSE /\ mainLocals' = [mainLocals EXCEPT
                          !.fragmentShaderSource = loadShaderSource(ok),
                          !.vertexShader = vs.returned,
                          !.fragmentShader = fs.returned,
                          !.program = pr.returned]
                    /\ glObjects' = pr.objects
                    /\ listeners' = EventTypes
                    /\ pending' = RequestedFrames(pending)
                    /\ hostPc' = "running"
            /\ UNCHANGED <<camera, mouse, renderPc, frame, buttonDown,
                           glcanvas, viewport>>
            /\ UNCHANGED notHost

\* lines 34-111: main, from window.onload to its return
HostMain == MainStart \/ MainVertexLoaded \/ MainFragmentLoaded

\* the sizes the layout gives the canvas, in CSS pixels
ClientWidths == {300, 640, 1280}
ClientHeights == {150, 480}

\* the browser lays the page out again: the display size of the canvas
\* changes, its drawing buffer does not
CanvasLayout ==
    \E clientWidth \in ClientWidths, clientHeight \in ClientHeights :
        /\ HandlerMayRun
        /\ glcanvas' = [glcanvas EXCEPT !.clientWidth = clientWidth,
                                        !.clientHeight = clientHeight]
        /\ UNCHANGED <<hostPc, camera, mouse, renderPc, pending, frame,
                       buttonDown, mainLocals, glObjects, listeners,
                       viewport>>
        /\ UNCHANGED notHost

\* a variant of resizeCanvasToDisplaySize: only the width is compared
resizeCanvasToDisplaySize_widthOnly(canvas, multiplier) ==
    LET m == IF multiplier[1] = 0 THEN RInt(1) ELSE multiplier
        width == (canvas.clientWidth * m[1]) \div m[2]
        height == (canvas.clientHeight * m[1]) \div m[2]
    IN  IF canvas.width # width
        THEN [canvas |-> [canvas EXCEPT !.width = width,
                                        !.height = height],
              returned |-> TRUE]
        ELSE [canvas |-> canvas, returned |-> FALSE]

\* lines 198-208: the multiplier is a rational, multiplier || 1 replaces
\* a zero, Math.floor of the quotient is the integer division
resizeCanvasToDisplaySize(canvas, multiplier) ==
    LET m == IF multiplier[1] = 0 THEN RInt(1) ELSE multiplier
        width == (canvas.clientWidth * m[1]) \div m[2]
        height == (canvas.clientHeight * m[1]) \div m[2]
    IN  IF canvas.width # width \/ canvas.height # height
        THEN [canvas |-> [canvas EXCEPT !.width = width,
                                        !.height = height],
              returned |-> TRUE]
        ELSE [canvas |-> canvas, returned |-> FALSE]

\* lines 80-84
MouseDown ==
    \E clientX \in ClientXs, clientY \in ClientYs :
        /\ hostPc = "running"
        /\ "mousedown" \in listeners
        /\ HandlerMayRun
        /\ mouse' = [lastX |-> clientX, lastY |-> clientY, dragging |-> TRUE]
        /\ buttonDown' = TRUE
        /\ UNCHANGED <<hostPc, camera, renderPc, pending, frame>>
        /\ UNCHANGED pageVars
        /\ UNCHANGED notHost

\* lines 85-87
MouseUp ==
    /\ hostPc = "running"
    /\ "mouseup" \in listeners
    /\ HandlerMayRun
    /\ mouse' = [mouse EXCEPT !.dragging = FALSE]
    /\ buttonDown' = FALSE
    /\ UNCHANGED <<hostPc, camera, renderPc, pending, frame>>
    /\ UNCHANGED pageVars
    /\ UNCHANGED notHost

\* lines 88-103
MouseMove ==
    \E clientX \in ClientXs, clientY \in ClientYs :
        LET dx == (clientX - mouse.lastX) * PER_PIXEL
            dy == (clientY - mouse.lastY) * PER_PIXEL
        IN  /\ hostPc = "running"
            /\ "mousemove" \in listeners
            /\ HandlerMayRun
            /\ IF ShouldOrbit(mouse.dragging)
               THEN /\ Abs(camera.azimuth - dx) <= MaxAzimuthRad * Q
                    /\ camera' =
                         [camera EXCEPT
                            !.azimuth = camera.azimuth - dx,
                            !.elevation = clampElevation(camera.elevation - dy)]
                    /\ mouse' = [mouse EXCEPT !.lastX = clientX,
                                              !.lastY = clientY]
               ELSE UNCHANGED <<camera, mouse>>
            /\ UNCHANGED <<hostPc, renderPc, pending, frame, buttonDown>>
            /\ UNCHANGED pageVars
            /\ UNCHANGED notHost

\* lines 104-108
Wheel ==
    \E deltaY \in WheelDeltas :
        /\ hostPc = "running"
        /\ "wheel" \in listeners
        /\ HandlerMayRun
        /\ camera' = [camera EXCEPT
                        !.distance = clampDistance(camera.distance
                                                   + deltaY * PER_PIXEL)]
        /\ UNCHANGED <<hostPc, mouse, renderPc, pending, frame, buttonDown>>
        /\ UNCHANGED pageVars
        /\ UNCHANGED notHost

\* lines 113-142: a pending call of render starts: the time in seconds,
\* the resize and the viewport, the clear, useProgram and the attribute
\* set-up
RenderBegin ==
    \E time \in RenderTimesMs :
        LET resize == resizeCanvasToDisplaySize(glcanvas, RInt(1))
        IN  /\ hostPc = "running"
            /\ renderPc = "idle"
            /\ pending > 0
            /\ pending' = pending - 1
            /\ glcanvas' = resize.canvas
            /\ viewport' = IF resize.returned
                           THEN <<resize.canvas.width, resize.canvas.height>>
                           ELSE viewport
            /\ frame' = [time |-> (time * Q) \div 1000, camera |-> camera,
                         camPos |-> <<>>, uniforms |-> <<>>,
                         drawn |-> FALSE, resized |-> resize.returned,
                         program |-> mainLocals.program]
            /\ renderPc' = "camPos"
            /\ UNCHANGED <<hostPc, camera, mouse, buttonDown, mainLocals,
                           glObjects, listeners>>
            /\ UNCHANGED notHost

\* lines 143-150
RenderCamPos ==
    /\ renderPc = "camPos"
    /\ frame' = [frame EXCEPT !.camPos = camPosOf(camera)]
    /\ renderPc' = "upload"
    /\ UNCHANGED <<hostPc, camera, mouse, pending, buttonDown>>
    /\ UNCHANGED pageVars
    /\ UNCHANGED notHost

\* lines 152-156
RenderUpload ==
    /\ renderPc = "upload"
    /\ frame' = [frame EXCEPT !.uniforms =
                    [u_resolution |-> <<glcanvas.width, glcanvas.height>>,
                     u_time |-> frame.time,
                     u_cameraPos |-> frame.camPos,
                     u_cameraLookAt |-> camera.lookAt,
                     u_cameraZoom |-> camera.zoom]]
    /\ renderPc' = "draw"
    /\ UNCHANGED <<hostPc, camera, mouse, pending, buttonDown>>
    /\ UNCHANGED pageVars
    /\ UNCHANGED notHost

\* line 158
RenderDraw ==
    /\ renderPc = "draw"
    /\ frame' = [frame EXCEPT !.drawn = TRUE]
    /\ renderPc' = "request"
    /\ UNCHANGED <<hostPc, camera, mouse, pending, buttonDown>>
    /\ UNCHANGED pageVars
    /\ UNCHANGED notHost

\* lines 159-160: the next call is requested and render returns
RenderRequest ==
    /\ renderPc = "request"
    /\ pending' = RequestedFrames(pending)
    /\ frame' = <<>>
    /\ renderPc' = "idle"
    /\ UNCHANGED <<hostPc, camera, mouse, buttonDown>>
    /\ UNCHANGED pageVars
    /\ UNCHANGED notHost

Render == RenderBegin \/ RenderCamPos \/ RenderUpload \/ RenderDraw
              \/ RenderRequest

(***************************************************************************)
(* shader.frag 192-249: PBRShading as a function of its arguments          *)
(***************************************************************************)
\* materials: albedo, metallic, roughness, ambient occlusion
Albedos == {<<Q, 0, 0>>, <<(7 * Q) \div 10, (7 * Q) \div 10, (7 * Q) \div 10>>}

Metallics == {0, Q \div 10, Q}

Roughnesses == {(4 * Q) \div 10, (7 * Q) \div 10, Q}

AmbientOcclusions == {Q \div 2, Q}

\* the clamped dot products of lines 207-210; opposed says V_eye + L_light
\* is the zero vector, which puts the light behind the surface
PbrInputs ==
    [NdotL : NdotLs, NdotV : NdotVs, NdotH : NdotHs, VdotH : VdotHs,
     dist_light_sq : LightDistSqs, albedo : Albedos, metallic : Metallics,
     roughness : Roughnesses, ao : AmbientOcclusions, opposed : BOOLEAN]

PbrInit ==
    /\ pbrIn \in {in \in PbrInputs : in.opposed => in.NdotL = 0}
    /\ pbrOut = <<>>

PbrIdle ==
    /\ pbrIn = [NdotL |-> 0, NdotV |-> Q, NdotH |-> 0, VdotH |-> 0,
                dist_light_sq |-> 20 * Q, albedo |-> <<Q, 0, 0>>,
                metallic |-> 0, roughness |-> Q, ao |-> Q, opposed |-> FALSE]
    /\ pbrOut = <<>>

\* one call of PBRShading with the radiance vec3(200.0) of line 277.
\* undefNaN is the build's answer where the half vector of line 204 is
\* undefined: a NaN that reaches D and F, or some vector.
PbrShade ==
    \E undefNaN \in BOOLEAN :
        /\ pbrOut = <<>>
        /\ HalfVectorDefined(pbrIn.opposed) => ~undefNaN
        /\ pbrOut' =
             [rgb |-> IF undefNaN THEN <<0, 0, 0>>
                      ELSE PBRShading(pbrIn.NdotL, pbrIn.NdotV, pbrIn.NdotH,
                                      pbrIn.VdotH, pbrIn.dist_light_sq,
                                      pbrIn.albedo, pbrIn.metallic,
                                      pbrIn.roughness, pbrIn.ao, 200 * Q),
              nan |-> undefNaN]
        /\ UNCHANGED pbrIn
        /\ UNCHANGED notPbr

(***************************************************************************)
(* Floating point                                                          *)
(*                                                                         *)
(* Where a property depends on the magnitudes the fragment program         *)
(* computes, a GLSL float is the triple <<m, e, kind>>: kind "num" stands  *)
(* for m * 10^e with a six-digit mantissa m (or for 0), "inf" for the      *)
(* infinity of the sign of m and "nan" for a NaN.  Every operation rounds  *)
(* its result to six digits.  Exponents are unbounded: overflow and        *)
(* underflow of the binary exponent are not modelled.                      *)
(***************************************************************************)
\* precision highp float: the first number a six-digit mantissa cannot hold
MantissaTop == 10^6

\* F applied to the value of e: e is computed once, however often F uses it
With1(e, F(_)) == CHOOSE r \in {F(x) : x \in {e}} : TRUE

With2(e1, e2, F(_, _)) ==
    CHOOSE r \in {F(x, y) : x \in {e1}, y \in {e2}} : TRUE

With3(e1, e2, e3, F(_, _, _)) ==
    CHOOSE r \in {F(x, y, z) : x \in {e1}, y \in {e2}, z \in {e3}} : TRUE

Sgn(x) == IF x < 0 THEN -1 ELSE IF x > 0 THEN 1 ELSE 0

RECURSIVE Pow10(_)
Pow10(n) == IF n = 0 THEN 1 ELSE 10 * Pow10(n - 1)

NaNF == <<0, 0, "nan">>

InfF(s) == <<s, 0, "inf">>

ZeroF == <<0, 0, "num">>

IsNum(a) == a[3] = "num"

IsNaN(a) == a[3] = "nan"

\* the float nearest to m * 10^e
RECURSIVE FNorm(_, _)
FNorm(mantissa, exponent) ==
    With2(mantissa, exponent, LAMBDA m, e :
        IF m = 0 THEN ZeroF
        ELSE IF Abs(m) >= MantissaTop
             THEN FNorm(Sgn(m) * ((Abs(m) + 5) \div 10), e + 1)
        ELSE IF Abs(m) < MantissaTop \div 10 THEN FNorm(m * 10, e - 1)
        ELSE <<m, e, "num">>)

FromInt(n) == FNorm(n, 0)

\* the literal n * 10^-k
FDec(n, k) == FNorm(n, -k)

\* a value of the fixed-point grid as a float
FromQ(x) == FNorm(x, -4)

FNeg(x) == With1(x, LAMBDA a : <<-a[1], a[2], a[3]>>)

FAbs(x) == With1(x, LAMBDA a : <<Abs(a[1]), a[2], a[3]>>)

FAdd(x, y) ==
    With2(x, y, LAMBDA a, b :
    IF IsNaN(a) \/ IsNaN(b) THEN NaNF
    ELSE IF ~IsNum(a) THEN (IF ~IsNum(b) /\ b[1] # a[1] THEN NaNF ELSE a)
    ELSE IF ~IsNum(b) THEN b
    ELSE IF a[1] = 0 THEN b
    ELSE IF b[1] = 0 THEN a
    ELSE LET hi == IF a[2] >= b[2] THEN a ELSE b
             lo == IF a[2] >= b[2] THEN b ELSE a
             d == hi[2] - lo[2]
             k == Min(d, 3)
         IN  IF d > 10 THEN hi
             ELSE FNorm(hi[1] * Pow10(k)
                          + Sgn(lo[1]) * (Abs(lo[1]) \div Pow10(d - k)),
                        hi[2] - k))

FSub(a, b) == FAdd(a, FNeg(b))

\* the six leading digits of the twelve-digit product, the partial products
\* kept within 32 bits
FMul(x0, y0) ==
    With2(x0, y0, LAMBDA a, b :
    IF IsNaN(a) \/ IsNaN(b) THEN NaNF
    ELSE IF ~IsNum(a) \/ ~IsNum(b)
         THEN (IF a[1] = 0 \/ b[1] = 0 THEN NaNF
               ELSE InfF(Sgn(a[1]) * Sgn(b[1])))
    ELSE LET x == Abs(a[1])
             y == Abs(b[1])
             xh == x \div 1000
             xl == x % 1000
             yh == y \div 1000
             yl == y % 1000
             low == (xh * yl + xl * yh) * 1000 + xl * yl
         IN  FNorm(Sgn(a[1]) * Sgn(b[1]) * (xh * yh * 10 + low \div 100000),
                   a[2] + b[2] + 5))

\* floor(a * 10^n / b) by long division, given q = a \div b and r = a % b
RECURSIVE Quotient(_, _, _, _)
Quotient(q0, r0, b, n) ==
    IF n = 0 THEN q0
    ELSE With2(q0 * 10 + (r0 * 10) \div b, (r0 * 10) % b,
               LAMBDA q, r : Quotient(q, r, b, n - 1))

\* IEEE division: x / 0 is an infinity, 0 / 0 a NaN
FDiv(x0, y0) ==
    With2(x0, y0, LAMBDA a, b :
    IF IsNaN(a) \/ IsNaN(b) THEN NaNF
    ELSE IF ~IsNum(a)
         THEN (IF ~IsNum(b) THEN NaNF
               ELSE InfF(IF b[1] < 0 THEN -a[1] ELSE a[1]))
    ELSE IF ~IsNum(b) THEN ZeroF
    ELSE IF b[1] = 0 THEN (IF a[1] = 0 THEN NaNF ELSE InfF(Sgn(a[1])))
    ELSE LET x == Abs(a[1])
             y == Abs(b[1])
         IN  FNorm(Sgn(a[1]) * Sgn(b[1]) * Quotient(x \div y, x % y, y, 6),
                   a[2] - b[2] - 6))

\* a < b; false when either is a NaN
FLt(x, y) ==
    With2(x, y, LAMBDA a, b :
        IF IsNaN(a) \/ IsNaN(b) THEN FALSE
        ELSE IF ~IsNum(a) THEN a[1] < 0 /\ ~(~IsNum(b) /\ b[1] < 0)
        ELSE IF ~IsNum(b) THEN b[1] > 0
        ELSE FSub(a, b)[1] < 0)

FGt(a, b) == FLt(b, a)

\* floor of the square root of n, by Newton's iteration from above
RECURSIVE ISqrtIter(_, _)
ISqrtIter(n, x) ==
    With1((x + n \div x) \div 2,
          LAMBDA y : IF y >= x THEN x ELSE ISqrtIter(n, y))

\* sqrt: the integer root of the mantissa, then one Newton step
FSqrt(x) ==
    With1(x, LAMBDA a :
        IF IsNaN(a) \/ a[1] < 0 THEN NaNF
        ELSE IF ~IsNum(a) THEN a
        ELSE IF a[1] = 0 THEN ZeroF
        ELSE LET odd == a[2] % 2 # 0
                 M == IF odd THEN a[1] * 1000 ELSE a[1] * 100
                 E == IF odd THEN a[2] - 3 ELSE a[2] - 2
             IN  With1(FNorm(ISqrtIter(M, 31623), E \div 2), LAMBDA r0 :
                     FMul(FDec(5, 1), FAdd(r0, FDiv(a, r0)))))

\* a rational of the heartbeat as a float
FromRat(r) == FDiv(FromInt(r[1]), FromInt(r[2]))

SignOf(x) ==
    With1(x, LAMBDA a :
        IF IsNaN(a) THEN "nan"
        ELSE IF a[1] < 0 THEN "negative"
        ELSE IF a[1] > 0 THEN "positive"
        ELSE "zero")

\* ---- vec3 ----
vec3(x, y, z) == <<x, y, z>>

VAdd(x, y) ==
    With2(x, y, LAMBDA a, b :
        <<FAdd(a[1], b[1]), FAdd(a[2], b[2]), FAdd(a[3], b[3])>>)

VSub(x, y) ==
    With2(x, y, LAMBDA a, b :
        <<FSub(a[1], b[1]), FSub(a[2], b[2]), FSub(a[3], b[3])>>)

\* v * s
VScale(x, y) ==
    With2(x, y, LAMBDA v, s : <<FMul(v[1], s), FMul(v[2], s), FMul(v[3], s)>>)

\* a / b, component by component
VDiv(x, y) ==
    With2(x, y, LAMBDA a, b :
        <<FDiv(a[1], b[1]), FDiv(a[2], b[2]), FDiv(a[3], b[3])>>)

dot(x, y) ==
    With2(x, y, LAMBDA a, b :
        FAdd(FAdd(FMul(a[1], b[1]), FMul(a[2], b[2])), FMul(a[3], b[3])))

cross(x, y) ==
    With2(x, y, LAMBDA a, b :
        <<FSub(FMul(a[2], b[3]), FMul(b[2], a[3])),
          FSub(FMul(a[3], b[1]), FMul(b[3], a[1])),
          FSub(FMul(a[1], b[2]), FMul(b[1], a[2]))>>)

length(x) == With1(x, LAMBDA v : FSqrt(dot(v, v)))

\* v / length(v); no vector of length zero is normalized in the runs below
normalize(x) ==
    With1(x, LAMBDA v : With1(length(v), LAMBDA l :
        <<FDiv(v[1], l), FDiv(v[2], l), FDiv(v[3], l)>>))

\* the swizzle .xzy
xzy(x) == With1(x, LAMBDA v : <<v[1], v[3], v[2]>>)

(***************************************************************************)
(* Distance field in floating point (shader.frag 19-104)                   *)
(***************************************************************************)
eqHeart_float(p_def_coord) ==
    With1(p_def_coord, LAMBDA p :
    LET x2 == FMul(p[1], p[1])
        y2 == FMul(p[2], p[2])
        z2 == FMul(p[3], p[3])
        z3 == FMul(z2, p[3])
        term1_base ==
            FSub(FAdd(FAdd(x2, FMul(FDec(225, 2), y2)), z2), FromInt(1))
        term1 == FMul(FMul(term1_base, term1_base), term1_base)
        term2 == FMul(x2, z3)
        term3 == FMul(FMul(FDec(1125, 4), y2), z3)
    IN  FSub(FSub(term1, term2), term3))

gradHeart_float(p_def_coord) ==
    With1(p_def_coord, LAMBDA p :
    LET x == p[1]
        y == p[2]
        z == p[3]
        x_sq == FMul(x, x)
        y_sq == FMul(y, y)
        z_sq == FMul(z, z)
        z_cub == FMul(z_sq, z)
        common_term_base ==
            FSub(FAdd(FAdd(x_sq, FMul(FDec(225, 2), y_sq)), z_sq), FromInt(1))
        common_term_sq == FMul(common_term_base, common_term_base)
        df_dx == FSub(FMul(FMul(FromInt(6), x), common_term_sq),
                      FMul(FMul(FromInt(2), x), z_cub))
        df_dy == FSub(FMul(FMul(FDec(135, 1), y), common_term_sq),
                      FMul(FMul(FDec(225, 3), y), z_cub))
        df_dz == FSub(FSub(FMul(FMul(FromInt(6), z), common_term_sq),
                           FMul(FMul(FromInt(3), x_sq), z_sq)),
                      FMul(FMul(FDec(3375, 4), y_sq), z_sq))
    IN  vec3(df_dx, df_dy, df_dz))

\* the quotient without the gradient: F itself taken for the distance
sdHeart_float_unnormalized(p_def_coord, anim_scales) ==
    eqHeart_float(p_def_coord)

sdHeart_float(p_def_coord, anim_scales) ==
    LET eq_val == eqHeart_float(p_def_coord)
        grad_val == gradHeart_float(p_def_coord)
    IN  FDiv(eq_val, FAdd(length(VDiv(grad_val, anim_scales)), FDec(1, 9)))

\* getHeartAnimationScales, its three values rounded to floats
getHeartAnimationScales_float(time) ==
    With1(getHeartAnimationScales(time), LAMBDA s :
        vec3(FromRat(s[1]), FromRat(s[2]), FromRat(s[3])))

getHeartTransformDataForPoint(p_world, time) ==
    LET heartPos == vec3(ZeroF, ZeroF, ZeroF)
        p_local_swizzled == xzy(VSub(p_world, heartPos))
    IN  With1(getHeartAnimationScales_float(time), LAMBDA scales :
            [animation_scales |-> scales,
             p_definition_space |-> VDiv(p_local_swizzled, scales)])

\* map at the world point p: <<sceneDist, materialID>>
mapAt(p, time) ==
    LET sceneDist == FNorm(1, 10)
    IN  With1(getHeartTransformDataForPoint(p, time), LAMBDA heart_data :
        With1(sdHeart_float(heart_data.p_definition_space,
                            heart_data.animation_scales), LAMBDA heartDist :
            IF FLt(heartDist, sceneDist) THEN <<heartDist, 1>>
            ELSE <<sceneDist, 0>>))

(***************************************************************************)
(* The heart of the extended scene (script.js 236-302, 363-365)            *)
(***************************************************************************)
eqHeart_ab(p_in, a, b) ==
    With1(p_in, LAMBDA p :
    LET x2 == FMul(p[1], p[1])
        y2 == FMul(p[2], p[2])
        z2 == FMul(p[3], p[3])
        z3 == FMul(z2, p[3])
        term1_base == FSub(FAdd(FAdd(x2, FMul(a, y2)), z2), FromInt(1))
        term1 == FMul(FMul(term1_base, term1_base), term1_base)
        term2 == FMul(x2, z3)
        term3 == FMul(FMul(b, y2), z3)
    IN  FSub(FSub(term1, term2), term3))

gradHeart_ab(p_in, a, b) ==
    With1(p_in, LAMBDA p :
    LET x == p[1]
        y == p[2]
        z == p[3]
        x_sq == FMul(x, x)
        y_sq == FMul(y, y)
        z_sq == FMul(z, z)
        z_cub == FMul(z_sq, z)
        common_term ==
            FSub(FAdd(FAdd(x_sq, FMul(a, y_sq)), z_sq), FromInt(1))
        common_term_sq == FMul(common_term, common_term)
        df_dx == FSub(FMul(FMul(FromInt(6), x), common_term_sq),
                      FMul(FMul(FromInt(2), x), z_cub))
        df_dy == FSub(FMul(FMul(FMul(FromInt(6), a), y), common_term_sq),
                      FMul(FMul(FMul(FromInt(2), b), y), z_cub))
        df_dz == FSub(FMul(FMul(FromInt(6), z), common_term_sq),
                      FMul(FMul(FromInt(3), z_sq),
                           FAdd(x_sq, FMul(b, y_sq))))
    IN  vec3(df_dx, df_dy, df_dz))

\* abs(eqHeart) / length(gradHeart)
sdHeart_ab(p, a, b) ==
    FDiv(FAbs(eqHeart_ab(p, a, b)), length(gradHeart_ab(p, a, b)))

\* the arguments of the call of sdHeart in the extended map
heartPos_extended == vec3(ZeroF, FromInt(1), FromInt(-2))

heart_a == FDiv(FromInt(9), FromInt(4))

heart_b == FDiv(FromInt(9), FromInt(200))

(***************************************************************************)
(* One distance query                                                      *)
(***************************************************************************)
\* the query points lie on a grid of half units around the heart
MaxHalf == 3

GridCoords == {FDec(5 * k, 1) : k \in -MaxHalf .. MaxHalf}

GridOffsets == {vec3(x, y, z) : x \in GridCoords, y \in GridCoords, z \in GridCoords}

\* the two fragment programs of the repository
Programs == {"shader.frag", "script.js"}

\* the systole and the diastole of the heartbeat
DistTimes == {RInt(0), RInt(1)}

DistInputs ==
    [program : Programs, offset : GridOffsets, time : DistTimes]

\* what the query of a program returns for the heart: the value of F at the
\* point and the distance.  A quotient by a gradient of length zero is
\* undefined in GLSL and may come out as any of a NaN, an infinity or zero.
HeartQuery(in) ==
    IF in.program = "shader.frag"
    THEN LET data == getHeartTransformDataForPoint(in.offset, in.time)
         IN  {[F |-> eqHeart_float(data.p_definition_space),
               dist |-> mapAt(in.offset, in.time)[1]]}
    ELSE LET p == VAdd(heartPos_extended, in.offset)
         IN  With1(xzy(VSub(p, heartPos_extended)), LAMBDA p_def :
             With1(eqHeart_ab(p_def, heart_a, heart_b), LAMBDA F :
                 IF length(gradHeart_ab(p_def, heart_a, heart_b)) = ZeroF
                 THEN {[F |-> F, dist |-> d] : d \in {NaNF, InfF(1), ZeroF}}
                 ELSE {[F |-> F,
                        dist |-> sdHeart_ab(p_def, heart_a, heart_b)]}))

DistInit ==
    /\ distIn \in DistInputs
    /\ distOut = <<>>

DistIdle ==
    /\ distIn = <<>>
    /\ distOut = <<>>

DistQuery ==
    /\ distIn # <<>>
    /\ distOut = <<>>
    /\ \E out \in HeartQuery(distIn) : distOut' = out
    /\ UNCHANGED distIn
    /\ UNCHANGED notDist

(***************************************************************************)
(* One ray in floating point (shader.frag 107-161, 292-314)                *)
(***************************************************************************)
HIT_THRESHOLD_float == FromQ(HIT_THRESHOLD)

MAX_DIST_float == FromQ(MAX_DIST)

getRayDirection(uv, camPos, lookAt, zoom) ==
    With1(normalize(VSub(lookAt, camPos)), LAMBDA f :
    With1(normalize(cross(vec3(ZeroF, FromInt(1), ZeroF), f)), LAMBDA r :
        LET u == cross(f, r)
        IN  normalize(VAdd(VAdd(VScale(f, zoom), VScale(r, uv[1])),
                           VScale(u, uv[2])))))

\* main: uv of the pixel
uvOf(in) ==
    <<FDiv(FSub(in.gl_FragCoord[1], FMul(FDec(5, 1), in.u_resolution[1])),
           in.u_resolution[2]),
      FDiv(FSub(in.gl_FragCoord[2], FMul(FDec(5, 1), in.u_resolution[2])),
           in.u_resolution[2])>>

\* ro + t * rd
RayPoint(in, rd, dist) == VAdd(in.u_cameraPos, VScale(rd, dist))

\* calcNormal with the swap of y and z left out
calcNormal_noSwap(p, materialID, time) ==
    With1(getHeartTransformDataForPoint(p, time), LAMBDA heart_data :
        LET grad_def_space == gradHeart_float(heart_data.p_definition_space)
        IN  [n |-> normalize(VDiv(grad_def_space,
                                  heart_data.animation_scales)),
             mapCalls |-> 0])

\* calcNormal: the vec3 returned and the number of calls of map it made
calcNormal(p, materialID, time) ==
    IF materialID = 1
    THEN With1(getHeartTransformDataForPoint(p, time), LAMBDA heart_data :
         With1(VDiv(gradHeart_float(heart_data.p_definition_space),
                    heart_data.animation_scales),
               LAMBDA grad_local_swizzled_space :
             LET n == vec3(grad_local_swizzled_space[1],
                           grad_local_swizzled_space[3],
                           grad_local_swizzled_space[2])
             IN  [n |-> normalize(n), mapCalls |-> 0]))
    ELSE LET epsilon == FDec(1, 3)
             \* e.xyy, e.yxy and e.yyx
             e == <<vec3(epsilon, ZeroF, ZeroF),
                    vec3(ZeroF, epsilon, ZeroF),
                    vec3(ZeroF, ZeroF, epsilon)>>
             \* map(p + e[k]).x for side 1 and map(p - e[k]).x for side -1
             sampled == [k \in 1 .. 3, side \in {1, -1} |->
                            mapAt(VAdd(p, VScale(e[k], FromInt(side))),
                                  time)[1]]
         IN  With1(sampled, LAMBDA s :
                 [n |-> normalize(vec3(FSub(s[1, 1], s[1, -1]),
                                       FSub(s[2, 1], s[2, -1]),
                                       FSub(s[3, 1], s[3, -1]))),
                  mapCalls |-> Cardinality(DOMAIN s)])

\* ---- the pixels marched ----
Resolution == <<FromInt(100), FromInt(100)>>

\* gl_FragCoord of the pixel in column px and row py
FragCoord(px, py) == <<FDec(10 * px + 5, 1), FDec(10 * py + 5, 1)>>

\* the four pixels around the centre of the canvas, seen from (0, 0, 6)
CentreInputs ==
    {[u_cameraPos |-> vec3(ZeroF, ZeroF, FromInt(6)),
      u_cameraLookAt |-> vec3(ZeroF, ZeroF, ZeroF),
      u_cameraZoom |-> FromInt(2),
      u_time |-> RInt(0),
      u_resolution |-> Resolution,
      gl_FragCoord |-> FragCoord(px, py)] : px \in {49, 50}, py \in {49, 50}}

\* pixels seen from the camera the host starts with: azimuth 0, elevation
\* PI / 12, distance 6 around the lookAt (0, 0.2, 0)
HostPixels == {<<50, 28>>, <<61, 36>>, <<50, 50>>, <<0, 99>>}

HostInputs ==
    {[u_cameraPos |-> vec3(ZeroF, FDec(175291, 5), FDec(579555, 5)),
      u_cameraLookAt |-> vec3(ZeroF, FDec(2, 1), ZeroF),
      u_cameraZoom |-> FromInt(2),
      u_time |-> time,
      u_resolution |-> Resolution,
      gl_FragCoord |-> FragCoord(px[1], px[2])] :
        px \in HostPixels, time \in DistTimes}

MarchInputs == CentreInputs \union HostInputs

MarchInit ==
    /\ marchIn \in MarchInputs
    /\ marchPc = "main"
    /\ marchRd = <<>>
    /\ marchT = ZeroF
    /\ marchI = 0
    /\ marchPrev = <<>>
    /\ marchResult = <<>>
    /\ marchNormal = <<>>
    /\ marchMapCalls = 0

MarchIdle ==
    /\ marchIn = <<>>
    /\ marchPc = "idle"
    /\ marchRd = <<>>
    /\ marchT = ZeroF
    /\ marchI = 0
    /\ marchPrev = <<>>
    /\ marchResult = <<>>
    /\ marchNormal = <<>>
    /\ marchMapCalls = 0

\* main up to the call of raymarch (shader.frag 293-303)
MarchMain ==
    /\ marchPc = "main"
    /\ marchRd' = getRayDirection(uvOf(marchIn), marchIn.u_cameraPos,
                                  marchIn.u_cameraLookAt, marchIn.u_cameraZoom)
    /\ marchPc' = "march"
    /\ UNCHANGED <<marchIn, marchT, marchI, marchPrev, marchResult,
                   marchNormal, marchMapCalls>>
    /\ UNCHANGED notMarch

\* one iteration of the loop of raymarch (shader.frag 140-152)
MarchStep ==
    /\ marchPc = "march"
    /\ \E map_result \in
            {mapAt(RayPoint(marchIn, marchRd, marchT), marchIn.u_time)} :
       LET dist_to_surface == map_result[1]
           t1 == FAdd(marchT, dist_to_surface)
       IN  IF FLt(dist_to_surface, HIT_THRESHOLD_float)
           THEN /\ marchResult' = <<marchT, map_result[2]>>
                /\ marchPc' = "returned"
                /\ UNCHANGED <<marchT, marchI, marchPrev>>
           ELSE /\ marchT' = t1
                /\ marchPrev' = <<marchT, dist_to_surface>>
                /\ IF FGt(t1, MAX_DIST_float) \/ ~LoopContinues(marchI + 1)
                   THEN /\ marchResult' = <<MAX_DIST_float, -1>>
                        /\ marchPc' = "returned"
                        /\ UNCHANGED marchI
                   ELSE /\ marchI' = marchI + 1
                        /\ UNCHANGED <<marchResult, marchPc>>
    /\ UNCHANGED <<marchIn, marchRd, marchNormal, marchMapCalls>>
    /\ UNCHANGED notMarch

\* main: the hit point and its normal (shader.frag 312-314)
MarchNormal ==
    /\ marchPc = "returned"
    /\ marchResult[2] >= 0
    /\ \E res \in {calcNormal(RayPoint(marchIn, marchRd, marchResult[1]),
                             marchResult[2], marchIn.u_time)} :
           /\ marchNormal' = res.n
           /\ marchMapCalls' = marchMapCalls + res.mapCalls
    /\ marchPc' = "normal"
    /\ UNCHANGED <<marchIn, marchRd, marchT, marchI, marchPrev, marchResult>>
    /\ UNCHANGED notMarch

PixelInit ==
    /\ pc = "march"
    /\ i = 0
    /\ t = 0
    /\ hitResult = <<0, 0>>
    /\ branch = "none"
    /\ gl_FragColor = [rgb |-> <<0, 0, 0>>, nan |-> FALSE, a |-> 0]
    /\ samples = 0
    /\ sumAdvance = 0
    /\ lastSample = <<0, 0>>
    /\ branches = 0
    /\ writes = 0
    /\ color = <<0, 0, 0>>
    /\ rayDirection_y = 0
    /\ t_sky = 0
    /\ lightOpposed = FALSE
    /\ normalPath = "none"

PixelIdle ==
    /\ PixelInit

\* one pixel of the fragment program
Init ==
    /\ PixelInit /\ SceneIdle /\ HeartIdle /\ AnimIdle /\ HostIdle /\ PbrIdle
    /\ DistIdle /\ MarchIdle

Next == Raymarch \/ Shade

Spec == Init /\ [][Next]_vars

\* the extended scene's map on every combination of primitive distances
InitScene ==
    /\ PixelIdle /\ SceneInit /\ HeartIdle /\ AnimIdle /\ HostIdle /\ PbrIdle
    /\ DistIdle /\ MarchIdle

NextScene == SceneMap

SpecScene == InitScene /\ [][NextScene]_vars

\* eqHeart and gradHeart on every point of the lattice
InitHeart ==
    /\ PixelIdle /\ SceneIdle /\ HeartInit /\ AnimIdle /\ HostIdle /\ PbrIdle
    /\ DistIdle /\ MarchIdle

NextHeart == HeartEval

SpecHeart == InitHeart /\ [][NextHeart]_vars

\* the heartbeat over a run of frames
InitAnim ==
    /\ PixelIdle /\ SceneIdle /\ HeartIdle /\ AnimInit /\ HostIdle /\ PbrIdle
    /\ DistIdle /\ MarchIdle

NextAnim == AnimFrame

SpecAnim == InitAnim /\ [][NextAnim]_vars

\* the host under any sequence of pointer and wheel events
InitHost ==
    /\ PixelIdle /\ SceneIdle /\ HeartIdle /\ AnimIdle /\ HostInit /\ PbrIdle
    /\ DistIdle /\ MarchIdle

NextHost ==
    HostMain \/ MouseDown \/ MouseUp \/ MouseMove \/ Wheel \/ Render

SpecHost == InitHost /\ [][NextHost]_vars

\* the page under changes of its layout: main, the frames and the
\* display size of the canvas
NextCanvas ==
    HostMain \/ CanvasLayout \/ Render

SpecCanvas == InitHost /\ [][NextCanvas]_vars

\* the same, the browser running every requested call of render and
\* render running to its end
SpecHostLive == SpecHost /\ WF_vars(Render)

\* PBRShading on every combination of its arguments
InitPbr ==
    /\ PixelIdle /\ SceneIdle /\ HeartIdle /\ AnimIdle /\ HostIdle /\ PbrInit
    /\ DistIdle /\ MarchIdle

NextPbr == PbrShade

SpecPbr == InitPbr /\ [][NextPbr]_vars

\* the distance query of both fragment programs on a grid of points
InitDist ==
    /\ PixelIdle /\ SceneIdle /\ HeartIdle /\ AnimIdle /\ HostIdle /\ PbrIdle
    /\ DistInit /\ MarchIdle

NextDist == DistQuery

SpecDist == InitDist /\ [][NextDist]_vars

\* rays of single pixels, marched in floating point
InitMarch ==
    /\ PixelIdle /\ SceneIdle /\ HeartIdle /\ AnimIdle /\ HostIdle /\ PbrIdle
    /\ DistIdle /\ MarchInit

NextMarch == MarchMain \/ MarchStep \/ MarchNormal

SpecMarch == InitMarch /\ [][NextMarch]_vars

(***************************************************************************)
(* Sphere tracer and pixel driver: properties                              *)
(***************************************************************************)

\* C1: raymarch ends after at most MAX_STEPS samples of map.  While it
\* marches, the number of samples equals the loop counter, which is below
\* MAX_STEPS, no sample was a hit and t is at most MAX_DIST; every step of
\* the march takes one more sample; and once it has returned, the latest
\* sample was a hit, or t exceeds MAX_DIST, or the counter is MAX_STEPS.
C1_RaymarchTerminates ==
    /\ [](/\ samples <= MAX_STEPS
          /\ pc = "march" =>
                /\ samples = i
                /\ i < MAX_STEPS
                /\ t <= MAX_DIST
                /\ samples > 0 => lastSample[1] >= HIT_THRESHOLD
          /\ pc # "march" =>
                \/ lastSample[1] < HIT_THRESHOLD
                \/ t > MAX_DIST
                \/ i = MAX_STEPS)
    /\ [][pc = "march" => samples' = samples + 1]_vars

\* C1 witness: all MAX_STEPS samples were taken without a hit or an escape
C1_Witness ==
    /\ pc = "returned"
    /\ samples = MAX_STEPS
    /\ t <= MAX_DIST
    /\ lastSample[1] >= HIT_THRESHOLD

\* C2: a march that ends without a hit returns (MAX_DIST, -1), whether t
\* exceeded MAX_DIST or the MAX_STEPS iterations were used up; an id other
\* than -1 is returned only when the latest sample was below HIT_THRESHOLD.
C2_SentinelOnMiss ==
    pc # "march" =>
        /\ lastSample[1] >= HIT_THRESHOLD =>
              /\ hitResult = <<MAX_DIST, -1>>
              /\ t > MAX_DIST \/ samples = MAX_STEPS
        /\ hitResult[2] # -1 => lastSample[1] < HIT_THRESHOLD

\* C2 witness: the iterations were used up with t still within MAX_DIST
C2_Witness ==
    /\ pc = "returned"
    /\ samples = MAX_STEPS
    /\ t <= MAX_DIST
    /\ lastSample[1] >= HIT_THRESHOLD
    /\ hitResult = <<MAX_DIST, -1>>

\* C3: the first sample below HIT_THRESHOLD ends the march as a hit that
\* returns the sum of the earlier samples' distances and that sample's id
\* (t = 0 when it is the first sample); a sample at or above the threshold
\* never ends the march as a hit and adds exactly its distance to t.
C3_HitAtFirstBelowThreshold ==
    /\ [](/\ pc = "march" =>
                /\ t = sumAdvance
                /\ samples > 0 => lastSample[1] >= HIT_THRESHOLD
          /\ (pc # "march" /\ lastSample[1] < HIT_THRESHOLD) =>
                /\ hitResult = <<sumAdvance, lastSample[2]>>
                /\ samples = 1 => hitResult[1] = 0)
    /\ [][(pc = "march" /\ lastSample'[1] >= HIT_THRESHOLD) =>
            /\ lastSample'[1] < FAR => t' = t + lastSample'[1]
            /\ pc' = "returned" => hitResult' = <<MAX_DIST, -1>>]_vars

\* C3 witness: a hit inside the surface after the ray has advanced
C3_Witness ==
    /\ pc = "returned"
    /\ samples > 1
    /\ lastSample[1] < 0
    /\ hitResult = <<sumAdvance, 1>>
    /\ hitResult[1] > 0

\* C4: main runs the Hit branch exactly when raymarch returned an id other
\* than -1 and the NoHit branch exactly when it returned -1; it runs one
\* branch, once, and writes gl_FragColor once, with alpha 1.0.
C4_OneBranchPerPixel ==
    /\ pc # "written" => branch = "none" /\ branches = 0 /\ writes = 0
    /\ pc = "written" =>
          /\ branches = 1
          /\ writes = 1
          /\ gl_FragColor.a = Q
          /\ branch \in {"Hit", "NoHit"}
          /\ branch = "Hit" <=> hitResult[2] # -1
          /\ branch = "NoHit" <=> hitResult[2] = -1

\* C4 witness: a pixel whose ray missed and got the sky
C4_Witness ==
    /\ pc = "written"
    /\ branch = "NoHit"
    /\ hitResult[2] = -1
    /\ gl_FragColor.a = Q

\* C23: t never decreases during a march: it starts at 0 and every sample
\* that is not a hit adds at least HIT_THRESHOLD; every hit raymarch
\* reports has 0 <= t <= MAX_DIST, so the hit point lies neither behind the
\* camera nor beyond the maximum travel distance.
C23_MarchMonotoneHitInRange ==
    /\ [](samples = 0 => t = 0)
    /\ [][t' >= t]_vars
    /\ [][samples' = samples + 1 /\ ~IsHit(lastSample'[1])
            => t' - t >= HIT_THRESHOLD]_vars
    /\ [][samples' = samples + 1 /\ IsHit(lastSample'[1])
            => t' = t /\ hitResult'[1] = t]_vars
    /\ [](pc # "march" /\ TakesHitBranch(hitResult[2])
            => 0 <= hitResult[1] /\ hitResult[1] <= MAX_DIST)

\* C23 witness: a hit reported at exactly MAX_DIST, after four long steps
C23_Witness ==
    /\ pc = "returned"
    /\ samples = 5
    /\ hitResult = <<MAX_DIST, 1>>

\* C24: map returns the default id 0.0 only together with the distance
\* 1e10, which is not a hit; raymarch returns (t, 1.0) or (MAX_DIST, -1.0);
\* the hit branch of main passes the id 1.0 to calcNormal, whose
\* central-difference branch is never taken.
C24_EveryHitIsTheHeart ==
    /\ samples > 0 /\ lastSample[2] = 0
          => lastSample[1] = FAR /\ ~IsHit(lastSample[1])
    /\ pc # "march"
          => \/ hitResult[2] = 1 /\ hitResult[1] = t
             \/ hitResult = <<MAX_DIST, -1>>
    /\ normalPath # "centralDifference"
    /\ branch = "Hit" => hitResult[2] = 1 /\ normalPath = "gradient"

\* C24 witness: a hit shaded after a march of several samples
C24_Witness ==
    /\ branch = "Hit"
    /\ samples > 2
    /\ hitResult[2] = 1
    /\ normalPath = "gradient"

\* C5: every component of the colour main writes lies in [0, 1] and alpha
\* is 1.0, in the Hit branch and in the NoHit branch.
C5_ColorInUnitRange ==
    pc = "written" =>
        /\ ~gl_FragColor.nan
        /\ \A k \in 1..3 : gl_FragColor.rgb[k] >= 0 /\ gl_FragColor.rgb[k] <= Q
        /\ gl_FragColor.a = Q

\* The colour is in range whenever the ray missed or the view vector (the
\* hit is not at the ray origin) and the half vector are defined.
ColorInUnitRangeAwayFromOrigin ==
    (pc = "written"
     /\ (branch = "NoHit" \/ (hitResult[1] # 0 /\ ~lightOpposed))) =>
        /\ ~gl_FragColor.nan
        /\ \A k \in 1..3 : gl_FragColor.rgb[k] >= 0 /\ gl_FragColor.rgb[k] <= Q
        /\ gl_FragColor.a = Q

\* C13 as stated: the colour written for a miss is the sky colour after
\* Reinhard and gamma, the post-processing of the Hit branch.
C13_SkyPostProcessedAsHit ==
    (pc = "written" /\ branch = "NoHit") =>
        gl_FragColor.rgb = GammaEncode(Reinhard(color))

\* C13 amended: the Hit branch applies Reinhard, then gamma (then fog) to
\* the shaded colour; the NoHit branch applies gamma alone to the sky
\* colour.
C13_SkyGammaOnly ==
    /\ (pc = "written" /\ branch = "NoHit") =>
           gl_FragColor.rgb = GammaEncode(color)
    /\ (pc = "written" /\ branch = "Hit" /\ ~gl_FragColor.nan) =>
           gl_FragColor.rgb =
               mix3(GammaEncode(Reinhard(color)), horizonSkyColor,
                    smoothstep(10 * Q, 30 * Q, hitResult[1]))

\* C13 witness: a miss half way up the sky, where gamma alone and
\* Reinhard followed by gamma give different colours
C13_Witness ==
    /\ pc = "written"
    /\ branch = "NoHit"
    /\ rayDirection_y = (4 * Q) \div 10
    /\ gl_FragColor.rgb = GammaEncode(color)
    /\ gl_FragColor.rgb # GammaEncode(Reinhard(color))

\* C14: a miss with rayDirection.y = 1 writes pow((0.05, 0.15, 0.4),
\* 1/2.2) = (0.2562, 0.4222, 0.6594); the blend factor is 0 and the sky
\* colour the horizon's (0.15, 0.45, 0.85) for rayDirection.y <= 0, and
\* the factor is 1 and the colour the zenith's for rayDirection.y >= 0.8.
C14_ZenithExact ==
    (pc = "written" /\ branch = "NoHit") =>
        /\ rayDirection_y = Q => gl_FragColor.rgb = <<2562, 4222, 6594>>
        /\ rayDirection_y <= 0 =>
               (t_sky = 0 /\ color = <<1500, 4500, 8500>>)
        /\ rayDirection_y >= (8 * Q) \div 10 =>
               (t_sky = Q /\ color = <<500, 1500, 4000>>)

\* C14 witness: a miss straight up
C14_Witness ==
    /\ pc = "written"
    /\ branch = "NoHit"
    /\ rayDirection_y = Q
    /\ t_sky = Q
    /\ gl_FragColor.rgb = <<2562, 4222, 6594>>

(***************************************************************************)
(* Extended scene: properties                                              *)
(***************************************************************************)
\* the smallest of the distances
MinOfDists(dists) ==
    CHOOSE m \in {dists[k] : k \in 1..Len(dists)} :
        \A k \in 1..Len(dists) : m <= dists[k]

\* the first position, in declaration order, of the smallest distance
FirstAt(dists, m) ==
    CHOOSE k \in 1..Len(dists) :
        dists[k] = m /\ \A j \in 1..(k - 1) : dists[j] # m

\* C6: map returns the smallest of the primitives' distances with the id of
\* the primitive that attains it, the first in declaration order (sphere,
\* box, torus, heart, ground) when several attain it.
C6_MapMinFirstWins ==
    sceneResult # <<>> =>
        LET m == MinOfDists(primDists)
        IN  sceneResult = <<m, SceneIds[FirstAt(primDists, m)]>>

\* C6 witness: the box and the heart tie below the others; the box's id
\* is returned
C6_Witness ==
    /\ sceneResult # <<>>
    /\ primDists[2] = primDists[4]
    /\ primDists[2] < primDists[1]
    /\ primDists[2] < primDists[3]
    /\ primDists[2] < primDists[5]
    /\ sceneResult = <<primDists[2], 2>>

(***************************************************************************)
(* Heartbeat: properties                                                   *)
(***************************************************************************)
\* |a| <= 1/n, without forming a common denominator
SmallerThanOneOver(a, n) == Abs(a[1]) <= a[2] \div n

\* C8: at every frame time the scales satisfy sx * sy * sz = 1 within
\* 10^-6, with sx = sy and sz = 1 / (sx * sy + 10^-7).
C8_VolumePreserved ==
    animation_scales # <<>> =>
        LET sx == animation_scales[1]
            sy == animation_scales[2]
            sz == animation_scales[3]
        IN  /\ sx = sy
            /\ RMul(sz, RAdd(RMul(sx, sy), Dec(1, 7))) = RInt(1)
            /\ SmallerThanOneOver(RSub(RMul(RMul(sx, sy), sz), RInt(1)), 10^6)

\* C8 witness: a frame at full contraction, sx = sy = 0.98
C8_Witness ==
    /\ animation_scales # <<>>
    /\ animation_scales[1] = Dec(98, 2)
    /\ animation_scales[2] = Dec(98, 2)

\* C25: at every frame time the beat cycle lies in [0, 1] and the beat
\* scale in [0.98, 1]; the three scales are strictly positive, the third
\* to four decimals between 0.9999 and 1.0413 (1 / 0.98^2 = 1.04123...,
\* DivQ the floor of the quotient in units of 10^-4), and the divisor
\* sx * sy + 10^-7 of line 75 is positive: no division by the scales, in
\* the point transform, the distance estimate or the normal, is by zero.
C25_ScalesBoundedAwayFromZero ==
    animation_scales # <<>> =>
        LET beat_cycle == beatCycleOf(u_time)
            s_beat == animation_scales[1]
            sz == animation_scales[3]
        IN  /\ RLeq(RInt(0), beat_cycle) /\ RLeq(beat_cycle, RInt(1))
            /\ RLeq(Dec(98, 2), s_beat) /\ RLeq(s_beat, RInt(1))
            /\ \A k \in 1..3 : animation_scales[k][1] > 0
                                /\ animation_scales[k][2] > 0
            /\ RAdd(RMul(s_beat, animation_scales[2]), Dec(1, 7))[1] > 0
            /\ 9999 <= DivQ(sz[1], sz[2])
            /\ DivQ(sz[1], sz[2]) <= 10413

\* C25 witness: the frame at one second, the cycle at its lowest, the
\* beat scale 0.98 and the third scale 1.0412 to four decimals
C25_Witness ==
    /\ u_time = RInt(1)
    /\ beatCycleOf(u_time) = RInt(0)
    /\ animation_scales[1] = Dec(98, 2)
    /\ DivQ(animation_scales[3][1], animation_scales[3][2]) = 10412

ClosedFormGradient(p, a, b) ==
    LET x == p[1]
        y == p[2]
        z == p[3]
        z2 == RMul(z, z)
        z3 == RMul(z2, z)
        g == RSub(RAdd(RAdd(RMul(x, x), RMul(a, RMul(y, y))), z2), RInt(1))
        g2 == RMul(g, g)
    IN  << RSub(RMul(RMul(RInt(6), x), g2), RMul(RMul(RInt(2), x), z3)),
           RSub(RMul(RMul(RMul(RInt(6), a), y), g2),
                RMul(RMul(RMul(RInt(2), b), y), z3)),
           RSub(RMul(RMul(RInt(6), z), g2),
                RMul(RMul(RInt(3), z2),
                     RAdd(RMul(x, x), RMul(b, RMul(y, y))))) >>

\* p moved by n units along axis k
Shifted(p, k, n) == [p EXCEPT ![k] = RAdd(p[k], RInt(n))]

\* the central difference of eqHeart along axis k on seven points, which
\* is the derivative itself for a polynomial of degree at most six
ExactPartial(p, k) ==
    LET d(n) == RSub(eqHeart(Shifted(p, k, n)), eqHeart(Shifted(p, k, -n)))
    IN  RDiv(RAdd(RSub(RMul(RInt(45), d(1)), RMul(RInt(9), d(2))), d(3)),
             RInt(60))

\* C10: at every point gradHeart is the closed form
\* (6x g^2 - 2x z^3, 6a y g^2 - 2b y z^3, 6z g^2 - 3z^2 (x^2 + b y^2))
\* with a = 9/4, b = 9/80, and each component is the partial derivative
\* of eqHeart.
C10_GradientExact ==
    heartGrad # <<>> =>
        /\ heartGrad = ClosedFormGradient(heartP, <<9, 4>>, <<9, 80>>)
        /\ \A k \in 1..3 : heartGrad[k] = ExactPartial(heartP, k)

\* C10 witness: a point off every coordinate plane, where all three
\* partial derivatives are non-zero and the b terms contribute
C10_Witness ==
    /\ heartGrad # <<>>
    /\ heartP = <<RInt(1), RInt(-1), RInt(2)>>
    /\ \A k \in 1..3 : heartGrad[k][1] # 0

(***************************************************************************)
(* Host: properties                                                        *)
(***************************************************************************)
\* C7: after any sequence of mousedown, mouseup, mousemove and wheel
\* events camera.elevation lies in [-pi/2 + 0.01, pi/2 - 0.01], so it is
\* never +-pi/2, where the camera would look along world-up, and the
\* camera stays off its target.
C7_ElevationClamped ==
    /\ -HALF_PI + Q \div 100 <= camera.elevation
    /\ camera.elevation <= HALF_PI - Q \div 100
    /\ Abs(camera.elevation) < HALF_PI
    /\ camera.distance > 0

\* C7 witness: a drag downwards has pushed the elevation onto its lower
\* limit
C7_Witness ==
    /\ hostPc = "running"
    /\ mouse.dragging
    /\ mouse.lastY = 250
    /\ camera.elevation = -HALF_PI + Q \div 100

\* C18: a call of render draws only after it has uploaded u_resolution,
\* u_time, u_cameraPos, u_cameraLookAt and u_cameraZoom; u_cameraPos is
\* computed from the azimuth, elevation, distance and lookAt the camera
\* object holds at that call, and the camera object does not change while
\* the call runs.
C18_FrameUsesOneCamera ==
    frame # <<>> =>
        /\ frame.camera = camera
        /\ frame.camPos # <<>> => frame.camPos = camPosOf(frame.camera)
        /\ frame.drawn =>
              /\ DOMAIN frame.uniforms = UniformNames
              /\ frame.uniforms.u_time = frame.time
              /\ frame.uniforms.u_cameraPos = camPosOf(frame.camera)
              /\ frame.uniforms.u_cameraLookAt = frame.camera.lookAt
              /\ frame.uniforms.u_cameraZoom = frame.camera.zoom

\* C18 witness: a frame drawn after the camera was orbited and zoomed,
\* during a drag
C18_Witness ==
    /\ frame # <<>>
    /\ frame.drawn
    /\ mouse.dragging
    /\ camera.azimuth # 0
    /\ camera.distance # 6 * Q
    /\ frame.uniforms.u_cameraPos[2].distance = camera.distance

MouseHandlerStep == MouseDown \/ MouseUp \/ MouseMove

\* C20: the flag mouse.dragging says that a mousedown occurred with no
\* later mouseup; azimuth and elevation change only then; a mousemove
\* while not dragging changes neither the camera nor the mouse state; and
\* no mouse listener changes camera.distance, camera.zoom or
\* camera.lookAt.
C20_OrbitOnlyWhileDragging ==
    /\ [](mouse.dragging = buttonDown)
    /\ [][(camera.azimuth' # camera.azimuth
           \/ camera.elevation' # camera.elevation) => buttonDown]_vars
    /\ [][(MouseMove /\ ~buttonDown) => UNCHANGED <<camera, mouse>>]_vars
    /\ [][MouseHandlerStep =>
            /\ camera.distance' = camera.distance
            /\ camera.zoom' = camera.zoom
            /\ camera.lookAt' = camera.lookAt]_vars

\* C20 witness: the button released after a drag that turned the camera
C20_Witness ==
    /\ ~mouse.dragging
    /\ ~buttonDown
    /\ mouse.lastX = 150
    /\ camera.azimuth = -150 * PER_PIXEL

\* C21: a wheel event changes nothing but camera.distance, which moves by
\* deltaY * 0.01 or onto the limit it would have passed; azimuth, elevation,
\* zoom, lookAt and the mouse state are left as they were.  After any
\* sequence of events camera.distance lies in [1.0, 50.0]; camPos lies at
\* that distance from lookAt, so the two never coincide.
C21_WheelZoomsWithinLimits ==
    /\ [](Q <= camera.distance /\ camera.distance <= 50 * Q)
    /\ [][Wheel =>
            /\ camera.azimuth' = camera.azimuth
            /\ camera.elevation' = camera.elevation
            /\ camera.zoom' = camera.zoom
            /\ camera.lookAt' = camera.lookAt
            /\ mouse' = mouse
            /\ \/ camera.distance' - camera.distance
                     \in {deltaY * PER_PIXEL : deltaY \in WheelDeltas}
               \/ camera.distance' \in {Q, 50 * Q}]_vars

\* C21 witness: the wheel has carried the distance onto its upper limit,
\* the camera turned by a drag before
C21_Witness ==
    /\ hostPc = "running"
    /\ camera.distance = 50 * Q
    /\ camera.azimuth # 0
    /\ camera.elevation # PI \div 12

\* every step of main that can fail has succeeded
AllStepsSucceeded ==
    /\ mainLocals.gl = "context"
    /\ mainLocals.vertexShaderSource = "text"
    /\ mainLocals.fragmentShaderSource = "text"
    /\ mainLocals.vertexShader = "VERTEX_SHADER"
    /\ mainLocals.fragmentShader = "FRAGMENT_SHADER"
    /\ mainLocals.program = "PROGRAM"
    /\ \A name \in {"VERTEX_SHADER", "FRAGMENT_SHADER", "PROGRAM"} :
           name \in DOMAIN glObjects /\ glObjects[name].success

\* some step of main has failed
SomeStepFailed ==
    \/ mainLocals.gl = "null"
    \/ mainLocals.vertexShaderSource = "thrown"
    \/ mainLocals.fragmentShaderSource = "thrown"
    \/ mainLocals.vertexShader = "null"
    \/ mainLocals.fragmentShader = "null"
    \/ mainLocals.program = "null"

\* render was requested, is running or has run
RenderCalled == pending > 0 \/ renderPc # "idle" \/ frame # <<>>

\* C22: initialization is all-or-nothing.  A listener is registered or a
\* call of render requested only when the context was obtained, both
\* sources were fetched with an ok response, both shaders compiled and the
\* program linked, and then all four listeners are registered; once a step
\* has failed main has returned, no listener is registered and render is
\* never called.
C22_InitializationAllOrNothing ==
    /\ [](listeners # {} \/ RenderCalled
            => AllStepsSucceeded /\ listeners = EventTypes)
    /\ [](AllStepsSucceeded => listeners = EventTypes /\ hostPc = "running")
    /\ [](SomeStepFailed
            => hostPc = "failed" /\ listeners = {} /\ ~RenderCalled)
    /\ [][SomeStepFailed => SomeStepFailed']_vars

\* C22 witness: everything succeeded up to the link, which failed: main
\* has returned with no listener and no frame requested
C22_Witness ==
    /\ hostPc = "failed"
    /\ mainLocals.vertexShader = "VERTEX_SHADER"
    /\ mainLocals.fragmentShader = "FRAGMENT_SHADER"
    /\ mainLocals.program = "null"
    /\ listeners = {}
    /\ pending = 0

\* what main holds for the object of that name
LocalOf(name) ==
    CASE name = "VERTEX_SHADER" -> mainLocals.vertexShader
      [] name = "FRAGMENT_SHADER" -> mainLocals.fragmentShader
      [] name = "PROGRAM" -> mainLocals.program

\* C27: createShader returned the shader exactly when it compiled and
\* createProgram the program exactly when it linked; an object that
\* failed is deleted and null was returned for it, an object that
\* succeeded is not deleted; the shaders attached to a program compiled,
\* and the program a frame uses is linked and alive.
C27_NoFailedObjectSurvives ==
    /\ \A name \in DOMAIN glObjects :
          /\ LocalOf(name) = name <=> glObjects[name].success
          /\ ~glObjects[name].success
                => glObjects[name].deleted /\ LocalOf(name) = "null"
          /\ glObjects[name].success => ~glObjects[name].deleted
    /\ "PROGRAM" \in DOMAIN glObjects
          => \A k \in 1..2 :
                LET shader == glObjects["PROGRAM"].attached[k]
                IN  /\ shader \in DOMAIN glObjects
                    /\ glObjects[shader].success
                    /\ ~glObjects[shader].deleted
    /\ frame # <<>>
          => /\ frame.program \in DOMAIN glObjects
             /\ glObjects[frame.program].success
             /\ ~glObjects[frame.program].deleted

\* C27 witness: the vertex shader failed to compile, was deleted and null
\* returned, while the fragment shader compiled and was returned
C27_Witness ==
    /\ DOMAIN glObjects = {"VERTEX_SHADER", "FRAGMENT_SHADER"}
    /\ ~glObjects["VERTEX_SHADER"].success
    /\ glObjects["VERTEX_SHADER"].deleted
    /\ mainLocals.vertexShader = "null"
    /\ glObjects["FRAGMENT_SHADER"].success
    /\ mainLocals.fragmentShader = "FRAGMENT_SHADER"

\* C26: the call of resizeCanvasToDisplaySize at the start of a frame
\* returns true exactly when the width or height of the canvas differed
\* from floor(clientWidth * multiplier), floor(clientHeight * multiplier),
\* and leaves the canvas with that size; a second call on the result
\* returns false and changes nothing; the viewport changes only in a
\* frame whose call returned true, and then to the new size.
C26_ResizeExactlyWhenSizeDiffers ==
    /\ [][renderPc = "idle" /\ renderPc' = "camPos" =>
            /\ frame'.resized
                  <=> (\/ glcanvas.width # glcanvas.clientWidth
                       \/ glcanvas.height # glcanvas.clientHeight)
            /\ glcanvas'.width = glcanvas.clientWidth
            /\ glcanvas'.height = glcanvas.clientHeight
            /\ glcanvas'.clientWidth = glcanvas.clientWidth
            /\ glcanvas'.clientHeight = glcanvas.clientHeight
            /\ ~resizeCanvasToDisplaySize(glcanvas', RInt(1)).returned
            /\ resizeCanvasToDisplaySize(glcanvas', RInt(1)).canvas
                  = glcanvas'
            /\ ~frame'.resized => glcanvas' = glcanvas
            /\ IF frame'.resized
               THEN viewport' = <<glcanvas'.width, glcanvas'.height>>
               ELSE viewport' = viewport]_vars
    /\ [][renderPc # "idle" => viewport' = viewport]_vars

\* C26 witness: a frame whose call returned true because only the height
\* differed, the viewport following
C26_Witness ==
    /\ frame # <<>>
    /\ frame.resized
    /\ glcanvas.width = 300
    /\ glcanvas.height = 480
    /\ viewport = <<300, 480>>

(***************************************************************************)
(* PBRShading: properties                                                  *)
(***************************************************************************)
\* ambient_sky_tint * 0.5 * albedo * ao
AmbientOf(in) ==
    [k \in 1..3 |->
        MulQ(MulQ(MulQ(ambient_sky_tint[k], Q \div 2), in.albedo[k]), in.ao)]

\* C15: whenever NdotL = 0 the radiance PBRShading returns is the ambient
\* contribution ambient_sky_tint * 0.5 * albedo * ao, for every view
\* direction, roughness and metallic value.
C15_AmbientOnlyWithoutLight ==
    (pbrOut # <<>> /\ pbrIn.NdotL = 0) =>
        (~pbrOut.nan /\ pbrOut.rgb = AmbientOf(pbrIn))

\* With NdotL = 0 the radiance is the ambient contribution whenever the
\* half vector is defined.
AmbientOnlyWithHalfVector ==
    (pbrOut # <<>> /\ pbrIn.NdotL = 0 /\ ~pbrIn.opposed) =>
        (~pbrOut.nan /\ pbrOut.rgb = AmbientOf(pbrIn))

(***************************************************************************)
(* Distance field query: properties                                        *)
(***************************************************************************)
\* C11 (as the specification states it): the heart distance a distance
\* field query returns is signed.  It is negative at every point where F is
\* negative (inside the heart), positive where F is positive (outside) and
\* zero where F is zero.  Violated by the query of the extended scene in
\* script.js, whose sdHeart returns abs(F) / length(gradF).
C11_HeartDistanceSigned ==
    distOut # <<>> => SignOf(distOut.dist) = SignOf(distOut.F)

\* What holds of the two programs: the query of shader.frag returns a
\* distance of the sign of F at every point of the grid, the cusp where F
\* and its gradient are both zero included; the query of script.js never
\* returns a negative distance.
SignedInShaderOnly ==
    distOut # <<>> =>
        IF distIn.program = "shader.frag"
        THEN SignOf(distOut.dist) = SignOf(distOut.F)
        ELSE SignOf(distOut.dist) # "negative"

(***************************************************************************)
(* One ray in floating point: properties                                   *)
(***************************************************************************)
\* C12: for a hit with the heart material, calcNormal returns
\* normalize(P(gradF(p_def) / scales)), p_def and scales being those of
\* getHeartTransformDataForPoint at the hit point and P the swap of the
\* second and third component; P undoes the swizzle applied to the world
\* point (applied twice it is the identity); calcNormal calls map no time.
C12_NormalIsSwappedScaledGradient ==
    (marchPc = "normal" /\ marchResult[2] = 1) =>
        \E hitPoint \in {RayPoint(marchIn, marchRd, marchResult[1])} :
        \E data \in {getHeartTransformDataForPoint(hitPoint, marchIn.u_time)} :
            /\ marchNormal =
                   normalize(xzy(VDiv(gradHeart_float(data.p_definition_space),
                                      data.animation_scales)))
            /\ xzy(xzy(hitPoint)) = hitPoint
            /\ marchMapCalls = 0

\* a heart hit during the diastole (scales other than 1) whose normal has
\* different second and third components, so that the swap shows
C12_Witness ==
    /\ marchPc = "normal"
    /\ marchResult[2] = 1
    /\ marchIn.u_time = RInt(1)
    /\ marchNormal[2] # marchNormal[3]
    /\ marchMapCalls = 0

\* C16: with the camera at (0, 0, 6) looking at the origin, zoom 2, time 0
\* and a canvas of 100 by 100 pixels, the ray of a centre pixel returns a hit
\* with the material id of the heart, after fewer than MAX_STEPS samples and
\* at a distance of at most MAX_DIST.
C16_CentrePixelHitsHeart ==
    (marchIn \in CentreInputs /\ marchPc \in {"returned", "normal"}) =>
        /\ marchResult[2] = 1
        /\ marchI < MAX_STEPS
        /\ ~FGt(marchResult[1], MAX_DIST_float)

\* the march of the centre pixel at gl_FragCoord (50.5, 50.5) has returned
\* after more than one step
C16_Witness ==
    /\ marchIn \in CentreInputs
    /\ marchIn.gl_FragCoord = FragCoord(50, 50)
    /\ marchPc = "returned"
    /\ marchResult[2] = 1
    /\ marchI > 1

\* the sample before the step lay within a tenth of a unit of the surface
NearSurface(dist_to_surface) == FLt(dist_to_surface, FDec(1, 1))

\* C17 (as the specification states it): a step by the distance map
\* returned, taken from a sample outside the heart and near its surface,
\* never carries the ray more than HIT_THRESHOLD past the surface: the point
\* HIT_THRESHOLD behind the new sample is still outside the heart (F is not
\* negative there).  Violated by rays that meet the surface at a slant.
C17_NoOvershoot ==
    (marchPc = "march" /\ marchPrev # <<>> /\ NearSurface(marchPrev[2])) =>
        LET back == RayPoint(marchIn, marchRd,
                             FSub(marchT, HIT_THRESHOLD_float))
            data == getHeartTransformDataForPoint(back, marchIn.u_time)
        IN  SignOf(eqHeart_float(data.p_definition_space)) # "negative"
====
